---- MODULE Spec2Model ----
(***************************************************************************)
(* mpesa-ke: the M-Pesa client (token cache, dispatcher with retry and     *)
(* backoff, per-request timeout) and the webhook callback handlers.        *)
(*                                                                         *)
(* Time is the value of Date.now() in milliseconds.  An operation is an    *)
(* async function: each action below runs one operation from one await to  *)
(* the next (a fetch in flight, a backoff sleep).                           *)
(***************************************************************************)
EXTENDS Integers, Sequences, FiniteSets, TLC

VARIABLES
    config,       \* the MpesaConfig given to the constructor
    accessToken,  \* Mpesa.accessToken (NoToken models null)
    tokenExpiry,  \* Mpesa.tokenExpiry
    ops,          \* the operations of the client, one record per slot
    now,          \* Date.now()
    issued,       \* tokens the gateway has issued so far
    calls,        \* operations the caller will still call
    spare,        \* clock ticks so far that no backoff sleep was waiting for
    hreq,         \* the callback request being handled (webhook handlers)
    unit,         \* a direct call of the constructor or of an exported function
    grant         \* the last successful token exchange (not program state)

vars == <<config, accessToken, tokenExpiry, ops, now, issued, calls, spare, hreq,
          unit, grant>>


----------------------------------------------------------------------------
(* Bounds of the model *)

\* operation slots of the client
NumOps == 2
\* operations called one after another in one behaviour
MaxOps == 2
\* largest value of config.retries when several operations are called
MaxRetriesSeq == 1
\* largest value of config.retries when one operation is called
MaxRetriesCfg == 5
\* clock ticks in one behaviour, the ticks a backoff sleep waits for not counted
MaxTicks == 1

----------------------------------------------------------------------------
(* Values *)

Ops == 1..NumOps

NoToken == 0

NoStatus == 0

EmptyObj == [f \in {} |-> ""]

Min(a, b) == IF a < b THEN a ELSE b

RECURSIVE Pow2(_)
Pow2(n) == IF n <= 0 THEN 1 ELSE 2 * Pow2(n - 1)

\* the number NaN (no number of the model is negative but a token expiry,
\* which is never below -60000)
NaN == -999999

\* the value of a string of decimal digits
RECURSIVE DigitsValue(_)
DigitsValue(ds) ==
    IF ds = <<>> THEN 0
    ELSE 10 * DigitsValue(SubSeq(ds, 1, Len(ds) - 1)) + ds[Len(ds)]

\* parseInt of a decimal string, the string given as its digits
ParseInt(ds) == IF ds = <<>> THEN NaN ELSE DigitsValue(ds)

----------------------------------------------------------------------------
(* errors.ts *)

MpesaApiError(message, statusCode, response, errorCode) ==
    [name |-> "MpesaApiError", message |-> message, statusCode |-> statusCode,
     response |-> response, errorCode |-> errorCode, field |-> ""]

MpesaAuthError(message, statusCode, response) ==
    [name |-> "MpesaAuthError", message |-> message, statusCode |-> statusCode,
     response |-> response, errorCode |-> "", field |-> ""]

MpesaValidationError(message, field) ==
    [name |-> "MpesaValidationError", message |-> message, statusCode |-> NoStatus,
     response |-> EmptyObj, errorCode |-> "", field |-> field]

\* an error that is none of the SDK's classes: Error, TypeError, SyntaxError
PlainError(name, message) ==
    [name |-> name, message |-> message, statusCode |-> NoStatus,
     response |-> EmptyObj, errorCode |-> "", field |-> ""]

NoError == PlainError("none", "")

----------------------------------------------------------------------------
(* utils.ts *)

Digits == {"0", "1", "2", "3", "4", "5", "6", "7", "8", "9"}

IsDigit(c) == c \in Digits

StartsWith(s, p) == Len(s) >= Len(p) /\ SubSeq(s, 1, Len(p)) = p

CountryCode == <<"2", "5", "4">>

\* (mutant) formatPhoneNumber without the stripping of separators
FormatPhoneNumberNoStrip(phone) ==
    LET cleaned == IF StartsWith(phone, <<"0">>)
                   THEN CountryCode \o SubSeq(phone, 2, Len(phone))
                   ELSE IF ~StartsWith(phone, CountryCode)
                        THEN CountryCode \o phone
                        ELSE phone
    IN  IF Len(cleaned) # 12
        THEN [ok |-> FALSE, value |-> cleaned,
              error |-> PlainError("Error", "Invalid phone number")]
        ELSE [ok |-> TRUE, value |-> cleaned, error |-> NoError]

\* formatPhoneNumber: [ok, value]; ok = FALSE when it throws
FormatPhoneNumber(phone) ==
    LET stripped == SelectSeq(phone, IsDigit)
        cleaned == IF StartsWith(stripped, <<"0">>)
                   THEN CountryCode \o SubSeq(stripped, 2, Len(stripped))
                   ELSE IF ~StartsWith(stripped, CountryCode)
                        THEN CountryCode \o stripped
                        ELSE stripped
    IN  IF Len(cleaned) # 12
        THEN [ok |-> FALSE, value |-> cleaned,
              error |-> PlainError("Error", "Invalid phone number")]
        ELSE [ok |-> TRUE, value |-> cleaned, error |-> NoError]

----------------------------------------------------------------------------
(* Inputs *)

Phone0712 == <<"0", "7", "1", "2", "3", "4", "5", "6", "7", "8">>

Phone071234 == <<"0", "7", "1", "2", "3", "4">>

\* the phone numbers the operations of the client are called with
OpPhones == {Phone0712, Phone071234}

\* operations that send a phone number, and operations that send none
Kinds == {"stkPush", "stkQuery", "c2bSimulate", "b2cPayment"}

NeedsPhone(kind) == kind \in {"stkPush", "c2bSimulate", "b2cPayment"}

Environments == {"sandbox", "production"}

\* config.timeout: 0 models a configuration without timeout
TimeoutChoices == {0, 1000}

\* config.retries: 0 models a configuration without retries
RetryChoices == (-1)..MaxRetriesCfg

\* the choices of a client whose operations are called one after another
RetryChoicesSeq == 0..MaxRetriesSeq

TimeoutChoicesSeq == {1000}

\* HTTP statuses the gateway answers with
Statuses == {200, 401, 503}

\* response bodies of a business request: raw text, whether it parses as
\* JSON, and the parsed structure
BodyGarbage == [json |-> FALSE, data |-> EmptyObj]

BodyCoded == [json |-> TRUE,
              data |-> [errorCode |-> "500.001.1001", errorMessage |-> "Wrong credentials"]]

BodyDesc == [json |-> TRUE, data |-> [ResultDesc |-> "Rejected"]]

BodyAccepted == [json |-> TRUE, data |-> [ResponseCode |-> "0"]]

\* the answers of the gateway to a business request
Responses == {<<200, BodyAccepted>>, <<200, BodyGarbage>>, <<401, BodyCoded>>,
              <<499, BodyGarbage>>, <<500, BodyDesc>>, <<503, BodyGarbage>>}

\* expires_in of the token response, a decimal string given by its digits
\* (<<>> models a response without a readable lifetime)
Lifetimes == {<<>>, <<6, 0>>, <<6, 1>>, <<3, 5, 9, 9>>}

----------------------------------------------------------------------------
(* mpesa.ts: configuration *)

\* this.timeout = config.timeout || 30000
TimeoutOf(cfg) == IF cfg.timeout # 0 THEN cfg.timeout ELSE 30000

\* this.maxRetries = config.retries || 0
MaxRetriesOf(cfg) == IF cfg.retries # 0 THEN cfg.retries ELSE 0

\* this.debug = config.debug || false (FALSE also models a configuration
\* without debug)
DebugOf(cfg) == cfg.debug

\* const URLS: the host and the path of the token endpoint, and the host of
\* the business endpoints
URLS ==
    [sandbox |->
        [auth |-> [host |-> "sandbox.safaricom.co.ke",
                   path |-> "/oauth/v1/generate?grant_type=client_credentials"],
         api |-> [host |-> "sandbox.safaricom.co.ke", path |-> ""]],
     production |->
        [auth |-> [host |-> "api.safaricom.co.ke",
                   path |-> "/oauth/v1/generate?grant_type=client_credentials"],
         api |-> [host |-> "api.safaricom.co.ke", path |-> ""]]]

\* (mutant) a client without environment goes to production
UrlsOfProduction(cfg) ==
    URLS[IF cfg.environment # "unset" THEN cfg.environment ELSE "production"]

\* this.urls = URLS[config.environment || 'sandbox'] ("unset" models a
\* configuration without environment)
UrlsOf(cfg) == URLS[IF cfg.environment # "unset" THEN cfg.environment ELSE "sandbox"]

----------------------------------------------------------------------------
(* mpesa.ts: token cache *)

\* (mutant) the token is served at the instant it expires
TokenValidLate(token, expiry, t) == token # NoToken /\ expiry # NaN /\ t <= expiry

\* the test of getAccessToken: a cached token that is still valid
TokenValid(token, expiry, t) == token # NoToken /\ expiry # NaN /\ t < expiry

\* (mutant) the expiry without the 60 s margin
ExpiryOfNoMargin(t, expiresIn) ==
    IF ParseInt(expiresIn) = NaN THEN NaN
    ELSE t + (ParseInt(expiresIn) * 1000)

\* (mutant) the lifetime taken as milliseconds
ExpiryOfSeconds(t, expiresIn) ==
    IF ParseInt(expiresIn) = NaN THEN NaN
    ELSE t + ParseInt(expiresIn) - 60000

\* Date.now() + (parseInt(data.expires_in) * 1000) - 60000
ExpiryOf(t, expiresIn) ==
    IF ParseInt(expiresIn) = NaN THEN NaN
    ELSE t + (ParseInt(expiresIn) * 1000) - 60000

\* response.ok
ResponseOk(status) == status >= 200 /\ status <= 299

----------------------------------------------------------------------------
(* mpesa.ts: dispatcher *)

\* (mutant) the backoff without its cap
BackoffDelayUncapped(attempt) == 1000 * Pow2(attempt - 1)

\* Math.min(1000 * Math.pow(2, attempt - 1), 10000)
BackoffDelay(attempt) == Min(1000 * Pow2(attempt - 1), 10000)

\* data.errorMessage || data.ResultDesc || `API request failed: ...`
ErrorMessageOf(data) ==
    IF "errorMessage" \in DOMAIN data THEN data.errorMessage
    ELSE IF "ResultDesc" \in DOMAIN data THEN data.ResultDesc
    ELSE "API request failed"

\* data.errorCode, "" when the body has none
ErrorCodeOf(data) == IF "errorCode" \in DOMAIN data THEN data.errorCode ELSE ""

\* response.json().catch(() => ({}))
ParsedBody(body) == IF body.json THEN body.data ELSE EmptyObj

\* the MpesaApiError built from a response that is not ok
ApiErrorOf(status, body) ==
    MpesaApiError(ErrorMessageOf(ParsedBody(body)), status, ParsedBody(body),
                  ErrorCodeOf(ParsedBody(body)))

\* fetchWithTimeout: the error thrown when the abort timer fired
TimedOutError == MpesaApiError("Request timed out", NoStatus, EmptyObj, "")

\* fetch rejecting for another reason than the abort: rethrown as it is
NetworkError == PlainError("TypeError", "fetch failed")

\* the retry test on a response that is not ok
RetryResponse(status, attempt, maxRetries) == status >= 500 /\ attempt < maxRetries

\* (mutant) only statuses below 400 count as client errors
IsClientErrorBelow400(error) ==
    error.name = "MpesaApiError" /\ error.statusCode # NoStatus /\ error.statusCode < 400

\* (mutant) the test forgets that an error may carry no status
IsClientErrorNoStatus(error) ==
    error.name = "MpesaApiError" /\ error.statusCode < 500

\* (mutant) every error that is no MpesaApiError is rethrown too
IsClientErrorOrForeign(error) ==
    \/ error.name # "MpesaApiError"
    \/ error.statusCode # NoStatus /\ error.statusCode < 500

\* the first test of the catch block: a client error is rethrown
IsClientError(error) ==
    error.name = "MpesaApiError" /\ error.statusCode # NoStatus /\ error.statusCode < 500

\* the second test of the catch block: the last attempt's error is rethrown
RetriesExhausted(attempt, maxRetries) == attempt >= maxRetries

----------------------------------------------------------------------------
(* utils.ts: the timestamp and the password of an STK request *)

DigitChar == <<"0", "1", "2", "3", "4", "5", "6", "7", "8", "9">>

\* A Date is an instant, held as what the local clock reads at it, and,
\* where the clock reads the same twice because it was set back, which of
\* the two instants it is (fold 0 the earlier, fold 1 the later).
DateOf(y, m, d, h, mi, s) ==
    [year |-> y, monthIndex |-> m, day |-> d, hours |-> h, minutes |-> mi,
     seconds |-> s, fold |-> 0]

\* Invalid Date
InvalidDate == DateOf(NaN, NaN, NaN, NaN, NaN, NaN)

\* The local clock of the process: set forward from 02:00 to 03:00 on
\* 2026-03-29 and set back from 03:00 to 02:00 on 2026-10-25, so that one
\* hour of readings never occurs and one occurs twice.  (A process in
\* Africa/Nairobi or in UTC has neither.)
SkippedHour(date) ==
    date.year = 2026 /\ date.monthIndex = 2 /\ date.day = 29 /\ date.hours = 2

RepeatedHour(date) ==
    date.year = 2026 /\ date.monthIndex = 9 /\ date.day = 25 /\ date.hours = 2

IsLeap(y) == (y % 4 = 0 /\ y % 100 # 0) \/ y % 400 = 0

\* the days of a month, by month index
DaysIn(y, m) ==
    IF m = 1 THEN (IF IsLeap(y) THEN 29 ELSE 28)
    ELSE IF m \in {3, 5, 8, 10} THEN 30 ELSE 31

\* the day that lies off days after the first of a month
RECURSIVE AddDays(_, _, _)
AddDays(y, m, off) ==
    IF off < 0
    THEN LET py == IF m = 0 THEN y - 1 ELSE y
             pm == IF m = 0 THEN 11 ELSE m - 1
         IN  AddDays(py, pm, off + DaysIn(py, pm))
    ELSE IF off >= DaysIn(y, m)
         THEN AddDays(IF m = 11 THEN y + 1 ELSE y, IF m = 11 THEN 0 ELSE m + 1,
                      off - DaysIn(y, m))
         ELSE [year |-> y, monthIndex |-> m, day |-> off + 1]

\* new Date(year, monthIndex, day, hours, minutes, seconds): a year 0..99
\* is taken as 1900 + year, values out of range carry over into the next
\* unit, a reading the clock skips is moved past the gap, and of two
\* instants with the same reading the earlier is taken
NewDate(a) ==
    IF NaN \in {a.year, a.monthIndex, a.day, a.hours, a.minutes, a.seconds}
    THEN InvalidDate
    ELSE LET yr == IF a.year >= 0 /\ a.year <= 99 THEN 1900 + a.year ELSE a.year
             mins == a.minutes + (a.seconds \div 60)
             hrs == a.hours + (mins \div 60)
             months == yr * 12 + a.monthIndex
             ymd == AddDays(months \div 12, months % 12, a.day - 1 + (hrs \div 24))
             local == DateOf(ymd.year, ymd.monthIndex, ymd.day,
                             hrs % 24, mins % 60, a.seconds % 60)
         IN  IF SkippedHour(local) THEN [local EXCEPT !.hours = @ + 1] ELSE local

\* String(n) of a number that is not negative
RECURSIVE NatChars(_)
NatChars(n) ==
    IF n < 10 THEN <<DigitChar[n + 1]>>
    ELSE NatChars(n \div 10) \o <<DigitChar[(n % 10) + 1]>>

\* (mutant) no padding
PadStart2None(n) == NatChars(n)

\* String(n).padStart(2, '0')
PadStart2(n) == IF Len(NatChars(n)) < 2 THEN <<"0">> \o NatChars(n) ELSE NatChars(n)

\* generateTimestamp: the local getters of the date, joined
GenerateTimestamp(date) ==
    NatChars(date.year) \o PadStart2(date.monthIndex + 1) \o PadStart2(date.day)
       \o PadStart2(date.hours) \o PadStart2(date.minutes) \o PadStart2(date.seconds)

\* the characters of the short codes, pass keys and timestamps
HexChars == DigitChar \o <<"a", "b", "c", "d", "e", "f">>

\* the byte Buffer.from(data) holds for a character
CharCode(c) ==
    LET i == CHOOSE i \in 1..Len(HexChars) : HexChars[i] = c
    IN  IF i <= 10 THEN 47 + i ELSE 86 + i

Base64Alphabet ==
    <<"A", "B", "C", "D", "E", "F", "G", "H", "I", "J", "K", "L", "M",
      "N", "O", "P", "Q", "R", "S", "T", "U", "V", "W", "X", "Y", "Z",
      "a", "b", "c", "d", "e", "f", "g", "h", "i", "j", "k", "l", "m",
      "n", "o", "p", "q", "r", "s", "t", "u", "v", "w", "x", "y", "z">>
    \o DigitChar \o <<"+", "/">>

\* the character of a group of six bits
Sextet(n) == Base64Alphabet[n + 1]

\* buffer.toString('base64'): three bytes to four characters, the rest padded
RECURSIVE Base64(_)
Base64(bytes) ==
    IF Len(bytes) = 0 THEN <<>>
    ELSE IF Len(bytes) = 1
    THEN <<Sextet(bytes[1] \div 4), Sextet((bytes[1] % 4) * 16), "=", "=">>
    ELSE IF Len(bytes) = 2
    THEN <<Sextet(bytes[1] \div 4),
           Sextet((bytes[1] % 4) * 16 + (bytes[2] \div 16)),
           Sextet((bytes[2] % 16) * 4), "=">>
    ELSE <<Sextet(bytes[1] \div 4),
           Sextet((bytes[1] % 4) * 16 + (bytes[2] \div 16)),
           Sextet((bytes[2] % 16) * 4 + (bytes[3] \div 64)),
           Sextet(bytes[3] % 64)>> \o Base64(SubSeq(bytes, 4, Len(bytes)))

\* Buffer.from(data)
BufferFrom(cs) == [i \in 1..Len(cs) |-> CharCode(cs[i])]

\* (mutant) the pass key comes first
GeneratePasswordKeyFirst(businessShortCode, passKey, timestamp) ==
    Base64(BufferFrom(passKey \o businessShortCode \o timestamp))

\* generatePassword: base64 of the three strings joined
GeneratePassword(businessShortCode, passKey, timestamp) ==
    Base64(BufferFrom(businessShortCode \o passKey \o timestamp))

\* config.businessShortCode and config.passKey of every client here
BusinessShortCode == <<"1", "7", "4", "3", "7", "9">>

PassKey == <<"b", "f", "b", "2", "7", "9", "f", "9">>

----------------------------------------------------------------------------
(* mpesa.ts and utils.ts: the SecurityCredential *)

\* a credential as it is written into a body: a string as it was given
PlainText(cs) == [t |-> "plain", of |-> cs, certificate |-> "none"]

\* ... or the base64 of crypto.publicEncrypt(certificate, password)
Encrypted(cs, certificate) == [t |-> "encrypted", of |-> cs, certificate |-> certificate]

NoCredential == PlainText(<<>>)

\* operations that send a SecurityCredential
NeedsCredential(kind) ==
    kind \in {"b2cPayment", "b2bPayment", "accountBalance", "transactionStatus",
              "reversal", "taxRemittance"}

\* generateSecurityCredential(password, certificatePath): the certificate is
\* read from the path, or is SANDBOX_CERTIFICATE; readFileSync throws when
\* the file is not there
GenerateSecurityCredential(password, certificatePath) ==
    IF certificatePath = "" THEN [ok |-> TRUE, error |-> NoError,
                                  value |-> Encrypted(password, "SANDBOX_CERTIFICATE")]
    ELSE IF certificatePath = "absent.cer"
    THEN [ok |-> FALSE, error |-> PlainError("Error", "ENOENT: no such file or directory"),
          value |-> NoCredential]
    ELSE [ok |-> TRUE, error |-> NoError, value |-> Encrypted(password, certificatePath)]

\* (mutant) the initiator password is sent as it is configured
GetSecurityCredentialRaw(requestCredential, cfg) ==
    IF requestCredential # <<>>
    THEN [ok |-> TRUE, error |-> NoError, value |-> PlainText(requestCredential)]
    ELSE IF cfg.initiatorPassword # <<>>
    THEN [ok |-> TRUE, error |-> NoError, value |-> PlainText(cfg.initiatorPassword)]
    ELSE [ok |-> TRUE, error |-> NoError, value |-> PlainText(BusinessShortCode)]

\* getSecurityCredential(requestCredential): the credential of the request,
\* else the configured password encrypted, else the short code
GetSecurityCredential(requestCredential, cfg) ==
    IF requestCredential # <<>>
    THEN [ok |-> TRUE, error |-> NoError, value |-> PlainText(requestCredential)]
    ELSE IF cfg.initiatorPassword # <<>>
    THEN GenerateSecurityCredential(cfg.initiatorPassword, cfg.certificatePath)
    ELSE [ok |-> TRUE, error |-> NoError, value |-> PlainText(BusinessShortCode)]

\* new Date() when Date.now() is t: the clock reads 2026-02-25 14:30:45 at 0
ClockDate(t) == NewDate(DateOf(2026, 1, 25, 14, 30, 45 + (t \div 1000)))

\* stkPush and stkQuery take the timestamp and derive the password from it
Signed(r, t) ==
    IF r.kind \in {"stkPush", "stkQuery"}
    THEN LET timestamp == GenerateTimestamp(ClockDate(t))
         IN  [r EXCEPT !.timestamp = timestamp,
                       !.password = GeneratePassword(BusinessShortCode, PassKey,
                                                     timestamp)]
    ELSE r

----------------------------------------------------------------------------
(* One operation of the client (stkPush, stkQuery, c2bSimulate): its        *)
(* position, its local variables, and what it has done so far.              *)

IdleOp ==
    [pc |-> "idle",          \* idle, auth, authBody, sleep, fetch, body, done
     kind |-> "none", phone |-> <<>>,
     securityCredential |-> <<>>,    \* request.securityCredential, <<>> for none
     debug |-> FALSE,        \* this.debug, as the operation reads it
     token |-> NoToken,      \* the token getAccessToken returned
     formatted |-> <<>>,     \* const phone = formatPhoneNumber(...)
     attempt |-> 0,          \* the loop counter of apiRequest
     timestamp |-> <<>>,     \* const timestamp of stkPush and stkQuery
     password |-> <<>>,      \* const password of stkPush and stkQuery
     credential |-> NoCredential,    \* SecurityCredential of the body
     lastError |-> NoError,  \* lastError of apiRequest
     deadline |-> 0,         \* when the abort timer of the fetch in flight fires
     wakeAt |-> 0,           \* when the backoff timer fires
     outcome |-> "none",     \* none, returned, thrown
     error |-> NoError,      \* the error thrown to the caller
     data |-> EmptyObj,      \* the data returned to the caller
     \* what the operation has done (not program state)
     logged |-> 0,           \* lines written by console.log
     id |-> 0,               \* which call of the caller this is, 0 for none
     cache |-> "none",       \* none, hit, miss: what getAccessToken found
     found |-> <<NoToken, 0>>,   \* the cache as getAccessToken found it
     nAuth |-> 0,            \* token exchanges sent
     nReq |-> 0,             \* business requests sent
     reqToken |-> NoToken,   \* the bearer token of the last business request
     reqPhone |-> <<>>,      \* the phone field of the last business request
     reqTimestamp |-> <<>>,  \* the Timestamp field of the last business request
     reqPassword |-> <<>>,   \* the Password field of the last business request
     reqCredential |-> NoCredential, \* its SecurityCredential field
     authHost |-> "",        \* the host the token exchange was sent to
     reqHost |-> "",         \* the host the last business request was sent to
     granted |-> NoToken,    \* the token the operation's own exchange returned
     last |-> "none",        \* how the last business fetch settled: status,
                             \* timeout, network; how the token exchange
                             \* failed: rejected (a status not ok),
                             \* exchangeTimeout, exchangeNetwork
     lastStatus |-> NoStatus,    \* the status of that response
     lastBody |-> BodyGarbage,   \* the body of that response
     only5xx |-> TRUE,       \* every business attempt so far was answered >= 500
     settledAt |-> 0,        \* when the last fetch settled
     delay |-> 0,            \* the delay of the last backoff
     waited |-> 0]           \* the time the last backoff took

\* the operation ends by throwing
Throw(r, error) ==
    [r EXCEPT !.pc = "done", !.outcome = "thrown", !.error = error,
              !.deadline = 0, !.wakeAt = 0, !.settledAt = 0]

\* the operation ends by returning
Return(r, data) ==
    [r EXCEPT !.pc = "done", !.outcome = "returned", !.data = data,
              !.deadline = 0, !.wakeAt = 0, !.settledAt = 0]

\* (mutant) the debug log consumes an attempt of the loop
LogCountsAttempt(r) ==
    IF r.debug THEN [r EXCEPT !.logged = @ + 1, !.attempt = @ + 1] ELSE r

\* this.log(message, data): console.log when debug is on
Log(r) == IF r.debug THEN [r EXCEPT !.logged = @ + 1] ELSE r

\* (mutant) the bearer token is read from the cache when the attempt is sent
SendAttemptShared(r, t, timeout) ==
    [Log(r) EXCEPT !.pc = "fetch", !.deadline = t + timeout,
                   !.nReq = @ + 1, !.reqToken = accessToken, !.reqPhone = r.formatted,
                   !.reqTimestamp = r.timestamp, !.reqPassword = r.password,
                   !.reqCredential = r.credential, !.reqHost = UrlsOf(config).api.host]

\* (mutant) the body is signed again for every attempt
SendAttemptResigns(r, t, timeout) ==
    [Log(r) EXCEPT !.pc = "fetch", !.deadline = t + timeout,
                   !.nReq = @ + 1, !.reqToken = r.token, !.reqPhone = r.formatted,
                   !.reqTimestamp = Signed(r, t).timestamp,
                   !.reqPassword = Signed(r, t).password,
                   !.reqCredential = r.credential, !.reqHost = UrlsOf(config).api.host]

\* one attempt: the request is logged, fetchWithTimeout arms the abort timer
\* and sends it.  The body and the headers are the ones apiRequest was
\* called with.
SendAttempt(r, t, timeout) ==
    [Log(r) EXCEPT !.pc = "fetch", !.deadline = t + timeout,
                   !.nReq = @ + 1, !.reqToken = r.token, !.reqPhone = r.formatted,
                   !.reqTimestamp = r.timestamp, !.reqPassword = r.password,
                   !.reqCredential = r.credential, !.reqHost = UrlsOf(config).api.host]

\* (mutant) the retry is sent at once, while nothing was waited for
StartBackoffFansOut(r, t) ==
    [Log(Log(r)) EXCEPT !.pc = "fetch", !.deadline = t + TimeoutOf(config),
                        !.nReq = @ + 1, !.reqToken = r.token,
                        !.reqPhone = r.formatted,
                        !.reqTimestamp = r.timestamp, !.reqPassword = r.password,
                   !.reqCredential = r.credential, !.reqHost = UrlsOf(config).api.host]

\* the head of a loop iteration with attempt > 0: the retry is logged, then
\* the backoff sleep
StartBackoff(r, t) ==
    [Log(r) EXCEPT !.pc = "sleep", !.delay = BackoffDelay(r.attempt),
                   !.wakeAt = t + BackoffDelay(r.attempt)]

\* (mutant) the loop test is attempt < maxRetries: one attempt too few
NextIterationShort(r, t, maxRetries) ==
    IF r.attempt + 1 < maxRetries
    THEN StartBackoff([r EXCEPT !.attempt = @ + 1], t)
    ELSE Throw(r, IF r.lastError # NoError THEN r.lastError
                  ELSE MpesaApiError("Request failed after all retries",
                                     NoStatus, EmptyObj, ""))

\* attempt++ and the loop test; after the loop, throw lastError || MpesaApiError
NextIteration(r, t, maxRetries) ==
    IF r.attempt + 1 <= maxRetries
    THEN StartBackoff([r EXCEPT !.attempt = @ + 1], t)
    ELSE Throw(r, IF r.lastError # NoError THEN r.lastError
                  ELSE MpesaApiError("Request failed after all retries",
                                     NoStatus, EmptyObj, ""))

\* apiRequest before its first attempt
BeginApiRequest(r, t, cfg) ==
    IF 0 <= MaxRetriesOf(cfg)
    THEN SendAttempt([r EXCEPT !.attempt = 0, !.lastError = NoError], t, TimeoutOf(cfg))
    ELSE Throw(r, MpesaApiError("Request failed after all retries",
                                NoStatus, EmptyObj, ""))

\* (mutant) the catch block surfaces the first error the operation met
CatchThrowsFirst(r, error, t, maxRetries) ==
    LET first == IF r.lastError # NoError THEN r.lastError ELSE error IN
    IF IsClientError(error) THEN Throw([r EXCEPT !.lastError = first], first)
    ELSE IF RetriesExhausted(r.attempt, maxRetries)
         THEN Throw([r EXCEPT !.lastError = first], first)
         ELSE NextIteration([r EXCEPT !.lastError = first], t, maxRetries)

\* the catch block of apiRequest
Catch(r, error, t, maxRetries) ==
    IF IsClientError(error) THEN Throw([r EXCEPT !.lastError = error], error)
    ELSE IF RetriesExhausted(r.attempt, maxRetries)
         THEN Throw([r EXCEPT !.lastError = error], error)
         ELSE NextIteration([r EXCEPT !.lastError = error], t, maxRetries)

\* (mutant) a success after failed attempts still surfaces the error kept
OnResponseRemembers(r, status, body, t, maxRetries) ==
    IF ~ResponseOk(status)
    THEN IF RetryResponse(status, r.attempt, maxRetries)
         THEN NextIteration([Log(r) EXCEPT !.lastError = ApiErrorOf(status, body)],
                            t, maxRetries)
         ELSE Catch(Log(r), ApiErrorOf(status, body), t, maxRetries)
    ELSE IF r.lastError # NoError THEN Throw(Log(r), r.lastError)
         ELSE Return(Log(r), ParsedBody(body))

\* (mutant) a body that does not parse makes response.json() throw
OnResponseParseThrows(r, status, body, t, maxRetries) ==
    IF ~body.json THEN Catch(r, PlainError("SyntaxError", "Unexpected token"), t, maxRetries)
    ELSE IF ~ResponseOk(status)
    THEN IF RetryResponse(status, r.attempt, maxRetries)
         THEN NextIteration([Log(r) EXCEPT !.lastError = ApiErrorOf(status, body)],
                            t, maxRetries)
         ELSE Catch(Log(r), ApiErrorOf(status, body), t, maxRetries)
    ELSE Return(Log(r), ParsedBody(body))

\* apiRequest after a response arrived: the response is logged, then judged
OnResponse(r, status, body, t, maxRetries) ==
    IF ~ResponseOk(status)
    THEN IF RetryResponse(status, r.attempt, maxRetries)
         THEN NextIteration([Log(r) EXCEPT !.lastError = ApiErrorOf(status, body)],
                            t, maxRetries)
         ELSE Catch(Log(r), ApiErrorOf(status, body), t, maxRetries)
    ELSE Return(Log(r), ParsedBody(body))

\* the operation builds the body, with the SecurityCredential where the
\* operation sends one, and calls apiRequest
BuildBody(r, t, cfg) ==
    IF ~NeedsCredential(r.kind) THEN BeginApiRequest(r, t, cfg)
    ELSE IF ~GetSecurityCredential(r.securityCredential, cfg).ok
         THEN Throw(r, GetSecurityCredential(r.securityCredential, cfg).error)
         ELSE BeginApiRequest(
                 [r EXCEPT !.credential =
                              GetSecurityCredential(r.securityCredential, cfg).value],
                 t, cfg)

\* (mutant) the operation sends what formatPhoneNumber made of the number
\* without regard to its length
AfterTokenUnchecked(r, token, t, cfg) ==
    IF ~NeedsPhone(r.kind)
    THEN BuildBody([Signed(r, t) EXCEPT !.token = token], t, cfg)
    ELSE BuildBody([Signed(r, t) EXCEPT !.token = token,
                                        !.formatted = FormatPhoneNumber(r.phone).value],
                   t, cfg)

\* an operation after getAccessToken returned token: it takes the timestamp
\* and the password (stkPush, stkQuery), formats the phone number (stkPush,
\* c2bSimulate, b2cPayment), builds the body and calls apiRequest
AfterToken(r, token, t, cfg) ==
    IF ~NeedsPhone(r.kind)
    THEN BuildBody([Signed(r, t) EXCEPT !.token = token], t, cfg)
    ELSE IF ~FormatPhoneNumber(r.phone).ok
         THEN Throw([Signed(r, t) EXCEPT !.token = token],
                    FormatPhoneNumber(r.phone).error)
         ELSE BuildBody([Signed(r, t) EXCEPT !.token = token,
                                             !.formatted = FormatPhoneNumber(r.phone).value],
                        t, cfg)

\* (mutant) c2bSimulate runs in every environment
EnvironmentRefusedNever(kind, cfg) == FALSE

\* c2bSimulate refuses the production environment before anything else
EnvironmentRefused(kind, cfg) == kind = "c2bSimulate" /\ cfg.environment = "production"

----------------------------------------------------------------------------
(* The gateway's answers *)

\* the body of a token response that is not ok, as response.text() gives it;
\* text() failing gives ''
AuthTexts == {[readable |-> TRUE, raw |-> "Invalid credentials"],
              [readable |-> FALSE, raw |-> "Invalid credentials"]}

\* response.text().catch(() => '')
TextOf(text) == IF text.readable THEN [raw |-> text.raw] ELSE [raw |-> ""]

\* (mutant) the token response's failure is reported as an API error
AuthErrorAsApi(status, text) ==
    MpesaApiError("Authentication failed", status, TextOf(text), "")

\* the MpesaAuthError built from a token response that is not ok
AuthErrorOf(status, text) == MpesaAuthError("Authentication failed", status, TextOf(text))

\* response.json() of a token response that does not parse
JsonError == PlainError("SyntaxError", "Unexpected token")

----------------------------------------------------------------------------
(* Actions of the client *)

\* no operation is in flight
Quiet == \A p \in Ops : ops[p].pc \in {"idle", "done"}

\* (mutant) the abort timer stays armed when its fetch has settled
SettledKeepsTimer(r, how, status, body, t) ==
    [r EXCEPT !.last = how, !.lastStatus = status, !.lastBody = body,
              !.only5xx = @ /\ how = "status" /\ status >= 500,
              !.settledAt = t, !.delay = 0, !.waited = 0]

\* what the settling of a business fetch adds to the operation's history
Settled(r, how, status, body, t) ==
    [r EXCEPT !.last = how, !.lastStatus = status, !.lastBody = body,
              !.only5xx = @ /\ how = "status" /\ status >= 500,
              !.settledAt = t, !.deadline = 0, !.delay = 0, !.waited = 0]

\* the token response with this status can arrive: whole, while the fetch is
\* in flight, or its body, after fetchWithTimeout returned its headers
AwaitsToken(r, status) ==
    r.pc = "auth" \/ (r.pc = "authBody" /\ r.lastStatus = status)

\* the same for the response of a business request
AwaitsResponse(r, status) ==
    r.pc = "fetch" \/ (r.pc = "body" /\ r.lastStatus = status)

\* a public operation is called with a request: c2bSimulate's environment
\* test, then getAccessToken, which returns the cached token or sends the
\* token exchange
CallOperation(o, kind, phone, securityCredential) ==
    /\ ops[o].pc \in {"idle", "done"}
    /\ calls > 0
    /\ calls' = calls - 1
    /\ LET r == [IdleOp EXCEPT !.kind = kind, !.phone = phone, !.id = calls,
                               !.securityCredential = securityCredential,
                               !.debug = DebugOf(config)] IN
       IF EnvironmentRefused(kind, config)
       THEN ops' = [ops EXCEPT ![o] = Throw(r, MpesaValidationError(
                        "C2B Simulate is only available in sandbox environment",
                        "environment"))]
       ELSE IF TokenValid(accessToken, tokenExpiry, now)
            THEN ops' = [ops EXCEPT ![o] =
                     AfterToken([r EXCEPT !.cache = "hit",
                                          !.found = <<accessToken, tokenExpiry>>],
                                accessToken, now, config)]
            ELSE ops' = [ops EXCEPT ![o] =
                     [r EXCEPT !.pc = "auth", !.cache = "miss",
                               !.found = <<accessToken, tokenExpiry>>,
                               !.nAuth = @ + 1,
                               !.authHost = UrlsOf(config).auth.host,
                               !.deadline = now + TimeoutOf(config)]]
    /\ UNCHANGED <<config, accessToken, tokenExpiry, now, issued, spare, hreq, unit, grant>>

\* an operation called with a request that has no securityCredential
StartOp(o, kind, phone) == CallOperation(o, kind, phone, <<>>)

\* (mutant) a rejected token exchange drops the cached token
AuthRejectedClears(o, status, text) ==
    /\ AwaitsToken(ops[o], status)
    /\ ~ResponseOk(status)
    /\ ops' = [ops EXCEPT ![o] =
           Throw([@ EXCEPT !.last = "rejected", !.lastStatus = status,
                           !.lastBody = text],
                 MpesaAuthError("Authentication failed", status, TextOf(text)))]
    /\ accessToken' = NoToken
    /\ tokenExpiry' = 0
    /\ UNCHANGED <<config, now, issued, calls, spare, hreq, unit, grant>>

\* the token exchange is answered with a status that is not ok
AuthRejected(o, status, text) ==
    /\ AwaitsToken(ops[o], status)
    /\ ~ResponseOk(status)
    /\ ops' = [ops EXCEPT ![o] =
           Throw([@ EXCEPT !.last = "rejected", !.lastStatus = status,
                           !.lastBody = text],
                 AuthErrorOf(status, text))]
    /\ UNCHANGED <<config, accessToken, tokenExpiry, now, issued, calls, spare, hreq, unit, grant>>

\* the token exchange is answered ok with a body that is not JSON
AuthUnparsable(o, status) ==
    /\ AwaitsToken(ops[o], status)
    /\ ResponseOk(status)
    /\ ops' = [ops EXCEPT ![o] = Throw(@, JsonError)]
    /\ UNCHANGED <<config, accessToken, tokenExpiry, now, issued, calls, spare, hreq, unit, grant>>

\* (mutant) the expiry is written only when it extends the cached one
AuthGrantedExtends(o, status, expiresIn) ==
    /\ AwaitsToken(ops[o], status)
    /\ ResponseOk(status)
    /\ issued' = issued + 1
    /\ accessToken' = issued + 1
    /\ tokenExpiry' = IF ExpiryOf(now, expiresIn) # NaN /\ tokenExpiry # NaN
                         /\ tokenExpiry > ExpiryOf(now, expiresIn)
                      THEN tokenExpiry ELSE ExpiryOf(now, expiresIn)
    /\ ops' = [ops EXCEPT ![o] =
           AfterToken([@ EXCEPT !.granted = issued + 1], issued + 1, now, config)]
    /\ grant' = [token |-> issued + 1, at |-> now, lifetime |-> expiresIn]
    /\ UNCHANGED <<config, now, calls, spare, hreq, unit>>

\* the token exchange is answered ok: the cache is filled and the operation
\* goes on with the new token
AuthGranted(o, status, expiresIn) ==
    /\ AwaitsToken(ops[o], status)
    /\ ResponseOk(status)
    /\ issued' = issued + 1
    /\ accessToken' = issued + 1
    /\ tokenExpiry' = ExpiryOf(now, expiresIn)
    /\ ops' = [ops EXCEPT ![o] =
           AfterToken([@ EXCEPT !.granted = issued + 1], issued + 1, now, config)]
    /\ grant' = [token |-> issued + 1, at |-> now, lifetime |-> expiresIn]
    /\ UNCHANGED <<config, now, calls, spare, hreq, unit>>

\* the token exchange fails in the network
AuthFailed(o) ==
    /\ ops[o].pc = "auth"
    /\ ops' = [ops EXCEPT ![o] = Throw([@ EXCEPT !.last = "exchangeNetwork"], NetworkError)]
    /\ UNCHANGED <<config, accessToken, tokenExpiry, now, issued, calls, spare, hreq, unit, grant>>

\* (mutant) a timeout of the token exchange is wrapped in an MpesaAuthError
AuthTimedOutWrapped(o) ==
    /\ ops[o].pc = "auth"
    /\ now >= ops[o].deadline
    /\ ops' = [ops EXCEPT ![o] =
           Throw([@ EXCEPT !.last = "exchangeTimeout"],
                 MpesaAuthError("Authentication failed", NoStatus, EmptyObj))]
    /\ UNCHANGED <<config, accessToken, tokenExpiry, now, issued, calls, spare, hreq, unit, grant>>

\* the abort timer fires during the token exchange
AuthTimedOut(o) ==
    /\ ops[o].pc = "auth"
    /\ now >= ops[o].deadline
    /\ ops' = [ops EXCEPT ![o] = Throw([@ EXCEPT !.last = "exchangeTimeout"], TimedOutError)]
    /\ UNCHANGED <<config, accessToken, tokenExpiry, now, issued, calls, spare, hreq, unit, grant>>

\* (mutant) a 401 to a business request revokes the cached token
RespondRevokes(o, status, body) ==
    /\ AwaitsResponse(ops[o], status)
    /\ ops' = [ops EXCEPT ![o] =
           OnResponse(Settled(@, "status", status, body, now), status, body,
                      now, MaxRetriesOf(config))]
    /\ accessToken' = (IF status = 401 THEN NoToken ELSE accessToken)
    /\ tokenExpiry' = (IF status = 401 THEN 0 ELSE tokenExpiry)
    /\ UNCHANGED <<config, now, issued, calls, spare, hreq, unit, grant>>

\* the business request is answered
Respond(o, status, body) ==
    /\ AwaitsResponse(ops[o], status)
    /\ ops' = [ops EXCEPT ![o] =
           OnResponse(Settled(@, "status", status, body, now), status, body,
                      now, MaxRetriesOf(config))]
    /\ UNCHANGED <<config, accessToken, tokenExpiry, now, issued, calls, spare, hreq, unit, grant>>

\* the business request fails in the network
FetchFailed(o) ==
    /\ ops[o].pc = "fetch"
    /\ ops' = [ops EXCEPT ![o] =
           Catch(Settled(@, "network", NoStatus, BodyGarbage, now), NetworkError,
                 now, MaxRetriesOf(config))]
    /\ UNCHANGED <<config, accessToken, tokenExpiry, now, issued, calls, spare, hreq, unit, grant>>

\* the abort timer fires during the business request
FetchTimedOut(o) ==
    /\ ops[o].pc = "fetch"
    /\ now >= ops[o].deadline
    /\ ops' = [ops EXCEPT ![o] =
           Catch(Settled(@, "timeout", NoStatus, BodyGarbage, now), TimedOutError,
                 now, MaxRetriesOf(config))]
    /\ UNCHANGED <<config, accessToken, tokenExpiry, now, issued, calls, spare, hreq, unit, grant>>

\* the backoff timer fires: the next attempt is sent
Wake(o) ==
    /\ ops[o].pc = "sleep"
    /\ now >= ops[o].wakeAt
    /\ ops' = [ops EXCEPT ![o] =
           SendAttempt([@ EXCEPT !.waited = now - ops[o].settledAt, !.wakeAt = 0],
                       now, TimeoutOf(config))]
    /\ UNCHANGED <<config, accessToken, tokenExpiry, now, issued, calls, spare, hreq, unit, grant>>

\* fetchWithTimeout returns the token response as soon as its headers are
\* there, and its finally clears the abort timer; the body is read after it
AuthHeaders(o, status) ==
    /\ ops[o].pc = "auth"
    /\ ops' = [ops EXCEPT ![o] = [@ EXCEPT !.pc = "authBody", !.lastStatus = status,
                                           !.deadline = 0]]
    /\ UNCHANGED <<config, accessToken, tokenExpiry, now, issued, calls, spare, hreq, unit, grant>>

\* the same for the response of a business request: response.json() is
\* awaited with no timer armed
Headers(o, status) ==
    /\ ops[o].pc = "fetch"
    /\ ops' = [ops EXCEPT ![o] = [@ EXCEPT !.pc = "body", !.lastStatus = status,
                                           !.deadline = 0]]
    /\ UNCHANGED <<config, accessToken, tokenExpiry, now, issued, calls, spare, hreq, unit, grant>>

\* a backoff sleep whose timer has not fired yet
Sleeping == \E o \in Ops : ops[o].pc = "sleep" /\ now < ops[o].wakeAt

\* time passes
Tick ==
    /\ now' = now + 1000
    /\ IF Sleeping THEN spare' = spare
       ELSE spare < MaxTicks /\ spare' = spare + 1
    /\ UNCHANGED <<config, accessToken, tokenExpiry, ops, issued, calls, hreq, unit, grant>>

\* a timer that is armed and has not fired: the abort timer of a fetch in
\* flight, or the timer of a backoff sleep
TimerPending ==
    \E o \in Ops :
       \/ ops[o].pc \in {"auth", "fetch"} /\ now < ops[o].deadline
       \/ ops[o].pc = "sleep" /\ now < ops[o].wakeAt

\* time passes while a timer is armed
TickTimer ==
    /\ TimerPending
    /\ now' = now + 1000
    /\ UNCHANGED <<config, accessToken, tokenExpiry, ops, issued, calls, spare, hreq, unit, grant>>

----------------------------------------------------------------------------
(* express.ts: parseStkCallback.  A metadata value is a number, given by   *)
(* its decimal digits, or a string, given by its characters.               *)

Num(ds) == [t |-> "number", digits |-> ds]

Str(cs) == [t |-> "string", chars |-> cs]

\* String(value)
StringOf(v) ==
    IF v.t = "string" THEN v.chars
    ELSE [i \in 1..Len(v.digits) |-> DigitChar[v.digits[i] + 1]]

\* the digit a character stands for
DigitOf(c) == (CHOOSE i \in 1..10 : DigitChar[i] = c) - 1

\* the longest prefix of digits of a string
RECURSIVE DigitPrefix(_)
DigitPrefix(cs) ==
    IF cs = <<>> \/ ~IsDigit(Head(cs)) THEN <<>>
    ELSE <<DigitOf(Head(cs))>> \o DigitPrefix(Tail(cs))

\* parseInt(string): the digits the string starts with, NaN when there are none
ParseIntChars(cs) == ParseInt(DigitPrefix(cs))

\* s.substring(from, to), positions counted from 0
Substring(cs, from, to) == SubSeq(cs, Min(from, Len(cs)) + 1, Min(to, Len(cs)))

\* Number(value): the number itself, or the number a string of digits
\* writes ('' is 0), NaN for any other string
NumberOf(v) ==
    IF v.t = "number" THEN DigitsValue(v.digits)
    ELSE IF \A i \in 1..Len(v.chars) : IsDigit(v.chars[i])
         THEN DigitsValue(DigitPrefix(v.chars))
         ELSE NaN

\* (mutant) the month is passed on as it is written
ParseSafaricomDateMonth(v) ==
    NewDate(
    [year |-> ParseIntChars(Substring(StringOf(v), 0, 4)),
     monthIndex |-> ParseIntChars(Substring(StringOf(v), 4, 6)),
     day |-> ParseIntChars(Substring(StringOf(v), 6, 8)),
     hours |-> ParseIntChars(Substring(StringOf(v), 8, 10)),
     minutes |-> ParseIntChars(Substring(StringOf(v), 10, 12)),
     seconds |-> ParseIntChars(Substring(StringOf(v), 12, 14))])

\* parseSafaricomDate
ParseSafaricomDate(v) ==
    NewDate(
    [year |-> ParseIntChars(Substring(StringOf(v), 0, 4)),
     monthIndex |-> IF ParseIntChars(Substring(StringOf(v), 4, 6)) = NaN THEN NaN
                    ELSE ParseIntChars(Substring(StringOf(v), 4, 6)) - 1,
     day |-> ParseIntChars(Substring(StringOf(v), 6, 8)),
     hours |-> ParseIntChars(Substring(StringOf(v), 8, 10)),
     minutes |-> ParseIntChars(Substring(StringOf(v), 10, 12)),
     seconds |-> ParseIntChars(Substring(StringOf(v), 12, 14))])

Null == [t |-> "null"]

\* the result before the metadata is read
BareResult(callback) ==
    [success |-> callback.ResultCode = 0,
     resultCode |-> callback.ResultCode,
     resultDesc |-> callback.ResultDesc,
     merchantRequestId |-> callback.MerchantRequestID,
     checkoutRequestId |-> callback.CheckoutRequestID,
     mpesaReceiptNumber |-> Null,
     transactionDate |-> Null,
     phoneNumber |-> Null,
     amount |-> Null]

\* (mutant) the amount is stored as it came, without Number(...)
ApplyItemRaw(result, item) ==
    IF item.Name = "MpesaReceiptNumber"
    THEN [result EXCEPT !.mpesaReceiptNumber = Str(StringOf(item.Value))]
    ELSE IF item.Name = "TransactionDate"
    THEN [result EXCEPT !.transactionDate =
              [t |-> "date", date |-> ParseSafaricomDate(item.Value)]]
    ELSE IF item.Name = "PhoneNumber"
    THEN [result EXCEPT !.phoneNumber = Str(StringOf(item.Value))]
    ELSE IF item.Name = "Amount"
    THEN [result EXCEPT !.amount = item.Value]
    ELSE result

\* one turn of the loop over CallbackMetadata.Item
ApplyItem(result, item) ==
    IF item.Name = "MpesaReceiptNumber"
    THEN [result EXCEPT !.mpesaReceiptNumber = Str(StringOf(item.Value))]
    ELSE IF item.Name = "TransactionDate"
    THEN [result EXCEPT !.transactionDate =
              [t |-> "date", date |-> ParseSafaricomDate(item.Value)]]
    ELSE IF item.Name = "PhoneNumber"
    THEN [result EXCEPT !.phoneNumber = Str(StringOf(item.Value))]
    ELSE IF item.Name = "Amount"
    THEN [result EXCEPT !.amount = [t |-> "number", value |-> NumberOf(item.Value)]]
    ELSE result

RECURSIVE ApplyItems(_, _)
ApplyItems(result, items) ==
    IF items = <<>> THEN result
    ELSE ApplyItems(ApplyItem(result, Head(items)), Tail(items))

\* parseStkCallback throws (a TypeError) on a body without Body.stkCallback,
\* and on metadata without the Item list
StkCallbackThrows(body) ==
    \/ "Body" \notin DOMAIN body
    \/ "stkCallback" \notin DOMAIN body.Body
    \/ /\ body.Body.stkCallback.ResultCode = 0
       /\ "CallbackMetadata" \in DOMAIN body.Body.stkCallback
       /\ "Item" \notin DOMAIN body.Body.stkCallback.CallbackMetadata

\* (mutant) the metadata is read whatever the ResultCode
ParseStkCallbackAlways(body) ==
    LET callback == body.Body.stkCallback IN
    IF "CallbackMetadata" \in DOMAIN callback
    THEN ApplyItems(BareResult(callback), callback.CallbackMetadata.Item)
    ELSE BareResult(callback)

ParseStkCallback(body) ==
    LET callback == body.Body.stkCallback IN
    IF callback.ResultCode = 0 /\ "CallbackMetadata" \in DOMAIN callback
    THEN ApplyItems(BareResult(callback), callback.CallbackMetadata.Item)
    ELSE BareResult(callback)

----------------------------------------------------------------------------
(* Callback payloads *)

StkPaid ==
    [Body |-> [stkCallback |->
        [MerchantRequestID |-> "merchant_123", CheckoutRequestID |-> "checkout_123",
         ResultCode |-> 0, ResultDesc |-> "Processed",
         CallbackMetadata |-> [Item |-> <<
            [Name |-> "Amount", Value |-> Num(<<1, 0, 0>>)],
            [Name |-> "MpesaReceiptNumber",
             Value |-> Str(<<"A", "B", "C", "1", "2", "3", "X", "Y", "Z">>)],
            [Name |-> "TransactionDate",
             Value |-> Num(<<2, 0, 2, 6, 0, 2, 2, 5, 1, 2, 0, 0, 0, 0>>)],
            [Name |-> "PhoneNumber",
             Value |-> Num(<<2, 5, 4, 7, 1, 2, 3, 4, 5, 6, 7, 8>>)]>>]]]]

StkCancelled ==
    [Body |-> [stkCallback |->
        [MerchantRequestID |-> "merchant_123", CheckoutRequestID |-> "checkout_123",
         ResultCode |-> 1032, ResultDesc |-> "Request cancelled by user."]]]

\* a body that is JSON and no STK callback
StkMalformed == [Unexpected |-> "x"]

\* a C2B confirmation and an async result: the handlers pass them on unread
C2BPayment == [TransAmount |-> "100", MSISDN |-> "254712345678"]

AsyncResult == [Result |-> [ResultCode |-> 0, ResultDesc |-> "ok"]]

Payloads == {StkPaid, StkCancelled, StkMalformed, C2BPayment, AsyncResult}

----------------------------------------------------------------------------
(* express.ts and nextjs.ts: the callback handlers *)

Handlers == {"createStkCallbackHandler", "createC2BCallbackHandler",
             "createAsyncResultHandler", "createStkCallbackRoute",
             "createC2BCallbackRoute", "createAsyncResultRoute"}

\* the Next.js routes read the body themselves, with request.json()
IsRoute(handler) ==
    handler \in {"createStkCallbackRoute", "createC2BCallbackRoute", "createAsyncResultRoute"}

IsStk(handler) == handler \in {"createStkCallbackHandler", "createStkCallbackRoute"}

\* { ResultCode: 0, ResultDesc: 'Accepted' }
Accepted == [ResultCode |-> 0, ResultDesc |-> "Accepted"]

NoResponse == [status |-> NoStatus, body |-> EmptyObj]

IdleReq ==
    [pc |-> "idle",             \* idle, json, onResult, onError, done
     handler |-> "none",
     onError |-> FALSE,         \* options.onError is given
     payload |-> EmptyObj,      \* the body of the request
     passed |-> EmptyObj,       \* what onResult or onPayment was called with
     nResult |-> 0,             \* calls of onResult or onPayment
     nError |-> 0,              \* calls of onError
     nResponse |-> 0,           \* responses sent
     response |-> NoResponse,   \* the response sent
     rejected |-> FALSE]        \* the handler's promise rejected

\* res.json(...) and Response.json(..., { status: 200 })
Acknowledge(q) ==
    [q EXCEPT !.pc = "done", !.nResponse = @ + 1,
              !.response = [status |-> 200, body |-> Accepted]]

\* the catch block: onError when given, then the acknowledgment
CatchCallback(q) ==
    IF q.onError THEN [q EXCEPT !.pc = "onError", !.nError = @ + 1]
    ELSE Acknowledge(q)

\* the try block from the parsed body on: parseStkCallback (STK handlers),
\* then onResult or onPayment
HandleBody(q) ==
    IF IsStk(q.handler)
    THEN IF StkCallbackThrows(q.payload) THEN CatchCallback(q)
         ELSE [q EXCEPT !.pc = "onResult", !.nResult = @ + 1,
                        !.passed = ParseStkCallback(q.payload)]
    ELSE [q EXCEPT !.pc = "onResult", !.nResult = @ + 1, !.passed = q.payload]

\* a callback arrives
Receive(handler, payload, onError) ==
    /\ hreq.pc = "idle"
    /\ hreq' = IF IsRoute(handler)
               THEN [IdleReq EXCEPT !.pc = "json", !.handler = handler,
                                    !.onError = onError, !.payload = payload]
               ELSE HandleBody([IdleReq EXCEPT !.handler = handler,
                                               !.onError = onError,
                                               !.payload = payload])
    /\ UNCHANGED <<config, accessToken, tokenExpiry, ops, now, issued, calls, spare, unit, grant>>

\* request.json() resolves
JsonParsed ==
    /\ hreq.pc = "json"
    /\ hreq' = HandleBody(hreq)
    /\ UNCHANGED <<config, accessToken, tokenExpiry, ops, now, issued, calls, spare, unit, grant>>

\* request.json() rejects: the body is not JSON
JsonFailed ==
    /\ hreq.pc = "json"
    /\ hreq' = CatchCallback(hreq)
    /\ UNCHANGED <<config, accessToken, tokenExpiry, ops, now, issued, calls, spare, unit, grant>>

\* onResult or onPayment returns
OnResultDone ==
    /\ hreq.pc = "onResult"
    /\ hreq' = Acknowledge(hreq)
    /\ UNCHANGED <<config, accessToken, tokenExpiry, ops, now, issued, calls, spare, unit, grant>>

\* onResult or onPayment throws or rejects
OnResultFailed ==
    /\ hreq.pc = "onResult"
    /\ hreq' = CatchCallback(hreq)
    /\ UNCHANGED <<config, accessToken, tokenExpiry, ops, now, issued, calls, spare, unit, grant>>

\* onError returns
OnErrorDone ==
    /\ hreq.pc = "onError"
    /\ hreq' = Acknowledge(hreq)
    /\ UNCHANGED <<config, accessToken, tokenExpiry, ops, now, issued, calls, spare, unit, grant>>

\* onError throws or rejects: nothing catches it, the handler's promise rejects
OnErrorFailed ==
    /\ hreq.pc = "onError"
    /\ hreq' = [hreq EXCEPT !.pc = "done", !.rejected = TRUE]
    /\ UNCHANGED <<config, accessToken, tokenExpiry, ops, now, issued, calls, spare, unit, grant>>

----------------------------------------------------------------------------
(* Direct calls: new Mpesa(config), parseStkCallback(body) and              *)
(* formatPhoneNumber(phone), each called once with one input.               *)

Undefined == [t |-> "undefined"]

\* !value, for a value that is undefined or a string
Falsy(v) == v.t = "undefined" \/ (v.t = "string" /\ v.chars = <<>>)

\* the fields the constructor tests, in the order it tests them
RequiredFields ==
    <<"consumerKey", "consumerSecret", "businessShortCode", "passKey", "callbackUrl">>

RequiredMessages ==
    <<"consumerKey is required", "consumerSecret is required",
      "businessShortCode is required", "passKey is required",
      "callbackUrl is required">>

\* the positions of the required fields that !config.field holds for
MissingFields(raw) == {i \in 1..Len(RequiredFields) : Falsy(raw[RequiredFields[i]])}

\* (mutant) the constructor reports the last missing field
LastMissing(raw) ==
    CHOOSE i \in MissingFields(raw) : \A j \in MissingFields(raw) : j <= i

\* the test that fails first
FirstMissing(raw) ==
    CHOOSE i \in MissingFields(raw) : \A j \in MissingFields(raw) : i <= j

\* what the constructor throws for a configuration with missing fields
ConstructorError(raw) ==
    MpesaValidationError(RequiredMessages[FirstMissing(raw)],
                         RequiredFields[FirstMissing(raw)])

\* values a required field of the configuration is given
FieldValues == {Undefined, Str(<<>>), Str(<<"k">>)}

\* configurations given to the constructor
RawConfigs ==
    [consumerKey : FieldValues, consumerSecret : FieldValues,
     businessShortCode : FieldValues, passKey : FieldValues,
     callbackUrl : FieldValues,
     environment : {"sandbox"}, timeout : {1000}, retries : {0},
     debug : {FALSE}]

\* new Mpesa(config): throws, or there is a client the caller calls once
Construct ==
    /\ unit.pc = "ready"
    /\ unit.fn = "constructor"
    /\ IF MissingFields(unit.arg) # {}
       THEN /\ unit' = [unit EXCEPT !.pc = "done", !.ok = FALSE,
                                    !.error = ConstructorError(unit.arg)]
            /\ UNCHANGED <<config, calls>>
       ELSE /\ unit' = [unit EXCEPT !.pc = "done", !.ok = TRUE]
            /\ config' = [environment |-> unit.arg.environment,
                          timeout |-> unit.arg.timeout,
                          retries |-> unit.arg.retries,
                          debug |-> unit.arg.debug,
                          initiatorPassword |-> <<>>, certificatePath |-> ""]
            /\ calls' = 1
    /\ UNCHANGED <<accessToken, tokenExpiry, ops, now, issued, spare, hreq, grant>>

\* parseStkCallback(body)
ParseCall ==
    /\ unit.pc = "ready"
    /\ unit.fn = "parseStkCallback"
    /\ unit' = IF StkCallbackThrows(unit.arg)
               THEN [unit EXCEPT !.pc = "done", !.ok = FALSE,
                                 !.error = PlainError("TypeError",
                                              "Cannot read properties of undefined")]
               ELSE [unit EXCEPT !.pc = "done", !.ok = TRUE,
                                 !.value = ParseStkCallback(unit.arg)]
    /\ UNCHANGED <<config, accessToken, tokenExpiry, ops, now, issued, calls, spare,
                   hreq, grant>>

\* formatPhoneNumber(phone)
FormatCall ==
    /\ unit.pc = "ready"
    /\ unit.fn = "formatPhoneNumber"
    /\ unit' = [unit EXCEPT !.pc = "done",
                            !.ok = FormatPhoneNumber(unit.arg).ok,
                            !.value = FormatPhoneNumber(unit.arg).value,
                            !.error = FormatPhoneNumber(unit.arg).error]
    /\ UNCHANGED <<config, accessToken, tokenExpiry, ops, now, issued, calls, spare,
                   hreq, grant>>

\* generateTimestamp(date)
TimestampCall ==
    /\ unit.pc = "ready"
    /\ unit.fn = "generateTimestamp"
    /\ unit' = [unit EXCEPT !.pc = "done", !.ok = TRUE,
                            !.value = GenerateTimestamp(unit.arg)]
    /\ UNCHANGED <<config, accessToken, tokenExpiry, ops, now, issued, calls, spare,
                   hreq, grant>>

\* parseSafaricomDate(dateValue)
ParseDateCall ==
    /\ unit.pc = "ready"
    /\ unit.fn = "parseSafaricomDate"
    /\ unit' = [unit EXCEPT !.pc = "done", !.ok = TRUE,
                            !.value = ParseSafaricomDate(unit.arg)]
    /\ UNCHANGED <<config, accessToken, tokenExpiry, ops, now, issued, calls, spare,
                   hreq, grant>>

\* parseSafaricomDate(generateTimestamp(date)): the caller passes the
\* timestamp it was given on to parseSafaricomDate
ParseBack ==
    /\ unit.pc = "done"
    /\ unit.fn = "generateTimestamp"
    /\ unit' = [unit EXCEPT !.pc = "ready", !.fn = "parseSafaricomDate",
                            !.arg = Str(unit.value),
                            !.note = [from |-> unit.arg],
                            !.ok = FALSE, !.value = <<>>]
    /\ UNCHANGED <<config, accessToken, tokenExpiry, ops, now, issued, calls, spare,
                   hreq, grant>>

----------------------------------------------------------------------------
(* The client: operations called one after another, each awaited before    *)
(* the next is called (slot 1 is the caller's await).                       *)

\* no exchange has succeeded yet
NoGrant == [token |-> NoToken, at |-> 0, lifetime |-> <<>>]

\* no direct call
IdleUnit == [pc |-> "idle", fn |-> "none", arg |-> <<>>, note |-> <<>>,
             ok |-> FALSE, value |-> <<>>, error |-> NoError]

Configs == [environment : Environments, timeout : TimeoutChoices, retries : RetryChoices,
            debug : {FALSE}, initiatorPassword : {<<>>}, certificatePath : {""}]

ConfigsSeq == [environment : {"sandbox"}, timeout : TimeoutChoicesSeq,
               retries : RetryChoicesSeq, debug : {FALSE},
               initiatorPassword : {<<>>}, certificatePath : {""}]

\* the state after new Mpesa(config)
Constructed(cfg) ==
    /\ config = cfg
    /\ accessToken = NoToken
    /\ tokenExpiry = 0
    /\ ops = [o \in Ops |-> IdleOp]
    /\ now = 0
    /\ issued = 0
    /\ spare = 0
    /\ hreq = IdleReq
    /\ grant = NoGrant

Init == \E cfg \in ConfigsSeq : Constructed(cfg) /\ calls = MaxOps /\ unit = IdleUnit

InitRetry == \E cfg \in Configs : Constructed(cfg) /\ calls = 1 /\ unit = IdleUnit

Call(o) ==
    /\ Quiet
    /\ o = 1
    /\ \E kind \in Kinds :
          \E phone \in (IF NeedsPhone(kind) THEN OpPhones ELSE {<<>>}) :
             StartOp(o, kind, phone)

AuthAnswer(o) ==
    \E status \in Statuses :
       \/ \E text \in AuthTexts : AuthRejected(o, status, text)
       \/ AuthUnparsable(o, status)
       \/ \E expiresIn \in Lifetimes : AuthGranted(o, status, expiresIn)

Answer(o) == \E resp \in Responses : Respond(o, resp[1], resp[2])

Next ==
    \/ \E o \in Ops : Call(o)
    \/ \E o \in Ops : AuthAnswer(o)
    \/ \E o \in Ops : AuthFailed(o)
    \/ \E o \in Ops : AuthTimedOut(o)
    \/ \E o \in Ops : Answer(o)
    \/ \E o \in Ops : FetchFailed(o)
    \/ \E o \in Ops : FetchTimedOut(o)
    \/ \E o \in Ops : Wake(o)
    \/ Tick

\* operations called one after another
Spec == Init /\ [][Next]_vars

\* one operation, with every retry count
SpecRetry == InitRetry /\ [][Next]_vars

----------------------------------------------------------------------------
(* The callback handlers: one callback to one handler *)

HandlerConfig == [environment |-> "sandbox", timeout |-> 0, retries |-> 0,
                  debug |-> FALSE, initiatorPassword |-> <<>>, certificatePath |-> ""]

InitHandler == Constructed(HandlerConfig) /\ calls = 0 /\ unit = IdleUnit

NextHandler ==
    \/ \E handler \in Handlers : \E payload \in Payloads : \E onError \in BOOLEAN :
          Receive(handler, payload, onError)
    \/ JsonParsed
    \/ JsonFailed
    \/ OnResultDone
    \/ OnResultFailed
    \/ OnErrorDone
    \/ OnErrorFailed

SpecHandler == InitHandler /\ [][NextHandler]_vars

----------------------------------------------------------------------------
(* The client with operations in flight at once: the caller does not await *)
(* one operation before calling the next.                                   *)

RaceConfig == [environment |-> "sandbox", timeout |-> 1000, retries |-> 0,
               debug |-> FALSE, initiatorPassword |-> <<>>, certificatePath |-> ""]

RaceKinds == {"stkPush", "stkQuery"}

\* the two operations that race
RaceOps == {1, 2}

InitRace == Constructed(RaceConfig) /\ calls = Cardinality(RaceOps) /\ unit = IdleUnit

\* an operation is called, whatever the other operation is doing
CallAny(o) ==
    /\ o \in RaceOps
    /\ \E kind \in RaceKinds :
          \E phone \in (IF NeedsPhone(kind) THEN {Phone0712} ELSE {<<>>}) :
             StartOp(o, kind, phone)

NextRace ==
    \/ \E o \in Ops : CallAny(o)
    \/ \E o \in Ops : AuthAnswer(o)
    \/ \E o \in Ops : AuthFailed(o)
    \/ \E o \in Ops : AuthTimedOut(o)
    \/ \E o \in Ops : Answer(o)
    \/ \E o \in Ops : FetchFailed(o)
    \/ \E o \in Ops : FetchTimedOut(o)
    \/ Tick

SpecRace == InitRace /\ [][NextRace]_vars

----------------------------------------------------------------------------
(* A client of any environment, with or without an initiator password, and  *)
(* every kind of operation, with or without a credential in the request.    *)

InitiatorPassword == <<"S", "a", "f", "2", "0", "2", "6">>

\* request.securityCredential of a caller that encrypted it beforehand
GivenCredential == <<"Q", "U", "J", "D", "R", "A", "=", "=">>

ConfigsRequest ==
    [environment : Environments \cup {"unset"}, timeout : {1000}, retries : {0},
     debug : {FALSE}, initiatorPassword : {<<>>, InitiatorPassword},
     certificatePath : {"", "production.cer", "absent.cer"}]

RequestKinds ==
    {"stkQuery", "c2bSimulate", "b2cPayment", "b2bPayment", "accountBalance",
     "transactionStatus", "reversal", "taxRemittance"}

InitRequest == \E cfg \in ConfigsRequest : Constructed(cfg) /\ calls = 2 /\ unit = IdleUnit

\* the caller calls an operation when the one before it has ended
CallWith(o) ==
    /\ Quiet
    /\ o = 1
    /\ \E kind \in RequestKinds :
          \E credential \in (IF NeedsCredential(kind) THEN {<<>>, GivenCredential}
                              ELSE {<<>>}) :
             CallOperation(o, kind, IF NeedsPhone(kind) THEN Phone0712 ELSE <<>>,
                           credential)

NextRequest ==
    \/ \E o \in Ops : CallWith(o)
    \/ \E o \in Ops : AuthAnswer(o)
    \/ \E o \in Ops : AuthFailed(o)
    \/ \E o \in Ops : AuthTimedOut(o)
    \/ \E o \in Ops : Answer(o)
    \/ \E o \in Ops : FetchFailed(o)
    \/ \E o \in Ops : FetchTimedOut(o)
    \/ Tick

SpecRequest == InitRequest /\ [][NextRequest]_vars

----------------------------------------------------------------------------
(* One operation and a gateway that may stop answering at any point: the   *)
(* headers of a response and its body arrive apart, or never.  The runtime *)
(* fires every timer that is due, the gateway owes nothing.                 *)

InitLive == \E cfg \in ConfigsSeq : Constructed(cfg) /\ calls = 1 /\ unit = IdleUnit

NextLive ==
    \/ \E o \in Ops : Call(o)
    \/ \E o \in Ops : \E status \in Statuses : AuthHeaders(o, status)
    \/ \E o \in Ops : AuthAnswer(o)
    \/ \E o \in Ops : AuthFailed(o)
    \/ \E o \in Ops : AuthTimedOut(o)
    \/ \E o \in Ops : \E resp \in Responses : Headers(o, resp[1])
    \/ \E o \in Ops : Answer(o)
    \/ \E o \in Ops : FetchFailed(o)
    \/ \E o \in Ops : FetchTimedOut(o)
    \/ \E o \in Ops : Wake(o)
    \/ TickTimer

\* setTimeout callbacks run when they are due
TimersFire ==
    /\ WF_vars(TickTimer)
    /\ \A o \in Ops : WF_vars(AuthTimedOut(o))
    /\ \A o \in Ops : WF_vars(FetchTimedOut(o))
    /\ \A o \in Ops : WF_vars(Wake(o))

SpecLive == InitLive /\ [][NextLive]_vars /\ TimersFire

----------------------------------------------------------------------------
(* Direct calls of generateTimestamp and parseSafaricomDate *)

\* years, days of the year and times of day the dates are made of
DateYears == {999, 2026, 9999, 10000}

DateDays == {<<0, 5>>, <<1, 25>>, <<11, 31>>}

DateTimes == {<<0, 0, 0>>, <<9, 3, 7>>, <<12, 0, 0>>, <<14, 30, 45>>, <<23, 59, 59>>}

\* the two instants at which the clock reads 2026-10-25 02:30:00
Repeated0230 == DateOf(2026, 9, 25, 2, 30, 0)

\* dates given to generateTimestamp
Dates ==
    {DateOf(y, md[1], md[2], t[1], t[2], t[3]) :
        y \in DateYears, md \in DateDays, t \in DateTimes}
       \cup {Repeated0230, [Repeated0230 EXCEPT !.fold = 1]}

\* values given to parseSafaricomDate, each with the date and time it
\* writes: the values of the tests, a February 30th, a year below 100 and
\* a time the clock skips
DateValues ==
    {[value |-> Num(<<2, 0, 2, 6, 0, 2, 2, 5, 1, 2, 0, 0, 0, 0>>),
      writes |-> DateOf(2026, 1, 25, 12, 0, 0)],
     [value |-> Str(<<"2", "0", "2", "6", "1", "2", "3", "1", "2", "3", "5", "9", "5", "9">>),
      writes |-> DateOf(2026, 11, 31, 23, 59, 59)],
     [value |-> Num(<<2, 0, 2, 4, 0, 2, 2, 9, 0, 9, 0, 3, 0, 7>>),
      writes |-> DateOf(2024, 1, 29, 9, 3, 7)],
     [value |-> Str(<<"2", "0", "2", "6", "0", "2", "3", "0", "1", "2", "0", "0", "0", "0">>),
      writes |-> DateOf(2026, 1, 30, 12, 0, 0)],
     [value |-> Str(<<"0", "0", "2", "6", "0", "2", "2", "5", "1", "2", "0", "0", "0", "0">>),
      writes |-> DateOf(26, 1, 25, 12, 0, 0)],
     [value |-> Num(<<2, 0, 2, 6, 0, 3, 2, 9, 0, 2, 3, 0, 0, 0>>),
      writes |-> DateOf(2026, 2, 29, 2, 30, 0)]}

DateCalls ==
    {[IdleUnit EXCEPT !.pc = "ready", !.fn = "generateTimestamp", !.arg = date] :
        date \in Dates}
    \cup {[IdleUnit EXCEPT !.pc = "ready", !.fn = "parseSafaricomDate",
                           !.arg = v.value, !.note = [writes |-> v.writes]] :
             v \in DateValues}

InitDate == Constructed(HandlerConfig) /\ calls = 0 /\ unit \in DateCalls

NextDate ==
    \/ TimestampCall
    \/ ParseDateCall
    \/ ParseBack

SpecDate == InitDate /\ [][NextDate]_vars

----------------------------------------------------------------------------
(* One operation of a client with debug on, and of a client with debug off *)

ConfigsDebug == [environment : {"sandbox"}, timeout : TimeoutChoicesSeq,
                 retries : RetryChoicesSeq, debug : BOOLEAN,
                 initiatorPassword : {<<>>}, certificatePath : {""}]

InitDebug == \E cfg \in ConfigsDebug : Constructed(cfg) /\ calls = 1 /\ unit = IdleUnit

SpecDebug == InitDebug /\ [][Next]_vars

----------------------------------------------------------------------------
(* Direct calls: the inputs *)

\* the metadata items of a paid callback
PaidItems == StkPaid.Body.stkCallback.CallbackMetadata.Item

ItemNames == {PaidItems[i].Name : i \in 1..Len(PaidItems)}

\* the paid items whose names are in names, in their order
ItemsNamed(names) ==
    LET Wanted(item) == item.Name \in names IN SelectSeq(PaidItems, Wanted)

\* metadata lists: every selection of the paid items, the amount written as
\* a string, and an item parseStkCallback does not know
ItemLists ==
    {ItemsNamed(names) : names \in SUBSET ItemNames}
       \cup {<<[Name |-> "Amount", Value |-> Str(<<"1", "0", "0">>)]>>,
             <<[Name |-> "Balance", Value |-> Num(<<0>>)]>>}

ResultCodes == {0, 1, 1032}

\* a callback body without CallbackMetadata, and one with it
StkBodyBare(code) ==
    [Body |-> [stkCallback |->
        [MerchantRequestID |-> "merchant_123", CheckoutRequestID |-> "checkout_123",
         ResultCode |-> code,
         ResultDesc |-> IF code = 0 THEN "Processed" ELSE "Request cancelled by user."]]]

StkBodyWith(code, items) ==
    [Body |-> [stkCallback |->
        [MerchantRequestID |-> "merchant_123", CheckoutRequestID |-> "checkout_123",
         ResultCode |-> code,
         ResultDesc |-> IF code = 0 THEN "Processed" ELSE "Request cancelled by user.",
         CallbackMetadata |-> [Item |-> items]]]]

StkBodies ==
    {StkBodyBare(code) : code \in ResultCodes}
       \cup {StkBodyWith(code, items) : code \in ResultCodes, items \in ItemLists}
       \cup {StkMalformed}

\* 9-digit subscriber numbers
Subscribers ==
    {<<"7", "1", "2", "3", "4", "5", "6", "7", "8">>,
     <<"1", "1", "0", "0", "0", "0", "0", "0", "1">>,
     <<"2", "5", "4", "7", "1", "2", "3", "4", "5">>,
     <<"0", "1", "2", "3", "4", "5", "6", "7", "8">>}

\* the written forms of a subscriber number
Forms == {"0", "+254", "254", "bare"}

Written(n, form) ==
    CASE form = "0" -> <<"0">> \o n
      [] form = "+254" -> <<"+", "2", "5", "4">> \o n
      [] form = "254" -> <<"2", "5", "4">> \o n
      [] form = "bare" -> n

\* separators written into a number
Decorations == {"none", "dashes", "spaces", "parentheses"}

Decorated(cs, deco) ==
    CASE deco = "none" -> cs
      [] deco = "dashes" ->
            SubSeq(cs, 1, 4) \o <<"-">> \o SubSeq(cs, 5, 7) \o <<"-">>
               \o SubSeq(cs, 8, Len(cs))
      [] deco = "spaces" ->
            <<" ">> \o SubSeq(cs, 1, 4) \o <<" ">> \o SubSeq(cs, 5, Len(cs)) \o <<" ">>
      [] deco = "parentheses" ->
            <<"(">> \o SubSeq(cs, 1, 4) \o <<")">> \o <<" ">> \o SubSeq(cs, 5, Len(cs))

\* phone numbers that are no written form of a subscriber number
OddPhones ==
    {<<>>, Phone071234, <<"a", "b", "c">>,
     <<"2", "5", "4", "7", "1", "2", "3", "4", "5", "6", "7", "8", "9">>,
     <<"0", "0", "7", "1", "2", "3", "4", "5", "6", "7", "8">>}

\* the direct calls
UnitCalls ==
    {[IdleUnit EXCEPT !.pc = "ready", !.fn = "constructor", !.arg = raw] :
        raw \in RawConfigs}
    \cup {[IdleUnit EXCEPT !.pc = "ready", !.fn = "parseStkCallback", !.arg = body] :
             body \in StkBodies}
    \cup {[IdleUnit EXCEPT !.pc = "ready", !.fn = "formatPhoneNumber",
                           !.arg = Decorated(Written(n, form), deco),
                           !.note = [n |-> n, form |-> form, deco |-> deco]] :
             n \in Subscribers, form \in Forms, deco \in Decorations}
    \cup {[IdleUnit EXCEPT !.pc = "ready", !.fn = "formatPhoneNumber", !.arg = phone] :
             phone \in OddPhones}

\* before the call: there is no client yet (no operation can be called)
InitUnit == Constructed(HandlerConfig) /\ calls = 0 /\ unit \in UnitCalls

NextUnit ==
    \/ Construct
    \/ ParseCall
    \/ FormatCall
    \/ \E o \in Ops : Call(o)
    \/ \E o \in Ops : AuthAnswer(o)
    \/ \E o \in Ops : AuthFailed(o)
    \/ \E o \in Ops : AuthTimedOut(o)
    \/ \E o \in Ops : Answer(o)
    \/ \E o \in Ops : FetchFailed(o)
    \/ \E o \in Ops : FetchTimedOut(o)
    \/ Tick

\* one direct call; a constructed client is called once
SpecUnit == InitUnit /\ [][NextUnit]_vars

----------------------------------------------------------------------------
\* the cache as an operation finds it when it is called
C1_CachedAndFresh == accessToken # NoToken /\ now < tokenExpiry

\* the step that calls operation o: what the state of the cache makes it do
C1_CallStep(o) ==
    (ops'[o].id # ops[o].id /\ ~EnvironmentRefused(ops'[o].kind, config)) =>
        IF C1_CachedAndFresh
        THEN /\ ops'[o].nAuth = 0
             /\ ops'[o].token = accessToken
             /\ ops'[o].nReq > 0 => ops'[o].reqToken = accessToken
             /\ issued' = issued
        ELSE /\ ops'[o].nAuth = 1
             /\ ops'[o].nReq = 0
             /\ ops'[o].pc = "auth"

\* every other step of operation o
C1_LaterStep(o) ==
    (ops'[o].id = ops[o].id) =>
        /\ ops'[o].nAuth = ops[o].nAuth
        /\ (ops[o].cache = "hit" /\ ops'[o].nReq > ops[o].nReq) =>
               ops'[o].reqToken = ops[o].found[1]
        /\ (ops[o].cache = "hit") => issued' = issued

(* C1: on one client, for operations called one after another: an operation
   that finds a cached token with now < expiry sends no token exchange and
   sends its business requests with the cached token; an operation that
   finds no token, or now >= expiry, sends exactly one token exchange, before
   any business request; no other step of an operation sends a token
   exchange. *)

C1_TokenCache == [][\A o \in Ops : C1_CallStep(o) /\ C1_LaterStep(o)]_vars

\* the second operation found the token of the first still fresh and has sent
\* its business request with it
C1_Witness ==
    /\ calls = 0
    /\ ops[1].cache = "hit"
    /\ ops[1].nReq = 1
    /\ ops[1].reqToken = accessToken
    /\ issued = 1

----------------------------------------------------------------------------
(* C2: with maxRetries = n >= 0 and a gateway that answers every attempt of
   a business request with a status >= 500, one operation sends exactly n+1
   business requests and then fails with the ApiError built from the last
   response. *)

C2_RetriesOn5xx ==
    \A o \in Ops :
       (ops[o].nReq > 0 /\ ops[o].only5xx /\ MaxRetriesOf(config) >= 0) =>
          /\ ops[o].nReq <= MaxRetriesOf(config) + 1
          /\ ops[o].pc = "done" =>
                /\ ops[o].nReq = MaxRetriesOf(config) + 1
                /\ ops[o].outcome = "thrown"
                /\ ops[o].error.name = "MpesaApiError"
                /\ ops[o].error.statusCode = ops[o].lastStatus
                /\ ops[o].error.response =
                      (IF ops[o].lastBody.json THEN ops[o].lastBody.data ELSE EmptyObj)

\* five retries, every attempt answered >= 500: six requests, then the failure
C2_Witness ==
    /\ MaxRetriesOf(config) = 5
    /\ ops[1].pc = "done"
    /\ ops[1].only5xx
    /\ ops[1].nReq = 6
    /\ ops[1].error.statusCode = 503

(* C3: when a business request receives a client-error status (400-499), the
   operation sends no further attempt, whatever maxRetries is and however
   many attempts preceded it, and fails with an ApiError carrying that
   status, the parsed response body and the gateway errorCode when present. *)

C3_ClientErrorTerminal ==
    \A o \in Ops :
       (ops[o].last = "status" /\ ops[o].lastStatus >= 400 /\ ops[o].lastStatus <= 499) =>
          /\ ops[o].pc = "done"
          /\ ops[o].outcome = "thrown"
          /\ ops[o].error.name = "MpesaApiError"
          /\ ops[o].error.statusCode = ops[o].lastStatus
          /\ ops[o].error.response =
                (IF ops[o].lastBody.json THEN ops[o].lastBody.data ELSE EmptyObj)
          /\ ops[o].error.errorCode =
                (IF ops[o].lastBody.json /\ "errorCode" \in DOMAIN ops[o].lastBody.data
                 THEN ops[o].lastBody.data.errorCode ELSE "")

\* a 401 with an errorCode on the third attempt of five allowed
C3_Witness ==
    /\ MaxRetriesOf(config) = 5
    /\ ops[1].pc = "done"
    /\ ops[1].nReq = 3
    /\ ops[1].lastStatus = 401
    /\ ops[1].error.errorCode = "500.001.1001"

(* C5: a non-2xx response to the token exchange makes the operation fail with
   AuthError carrying the HTTP status and the raw response body; the
   exchange is not retried whatever maxRetries is (exactly one auth request
   is sent by that operation), and no business request is sent. *)

C5_AuthErrorTerminal ==
    \A o \in Ops :
       (ops[o].last = "rejected") =>
          /\ ops[o].pc = "done"
          /\ ops[o].outcome = "thrown"
          /\ ops[o].error.name = "MpesaAuthError"
          /\ ops[o].error.statusCode = ops[o].lastStatus
          /\ ops[o].error.response =
                [raw |-> IF ops[o].lastBody.readable THEN ops[o].lastBody.raw ELSE ""]
          /\ ops[o].nAuth = 1
          /\ ops[o].nReq = 0

\* a 503 to the token exchange of a client with five retries
C5_Witness ==
    /\ MaxRetriesOf(config) = 5
    /\ ops[1].last = "rejected"
    /\ ops[1].lastStatus = 503
    /\ ops[1].error.response = [raw |-> "Invalid credentials"]

\* getAccessToken of operation o sent the exchange and threw
C6_ExchangeFailed(o) ==
    /\ ops[o].pc = "done"
    /\ ops[o].cache = "miss"
    /\ ops[o].token = NoToken

(* C6: a failed token exchange (non-2xx response, timeout, network failure)
   leaves the token cache exactly as it was before the operation: an empty
   cache stays empty, a stale token and its expiry are neither cleared nor
   altered. *)

C6_FailedExchangeKeepsCache ==
    \A o \in Ops : C6_ExchangeFailed(o) => <<accessToken, tokenExpiry>> = ops[o].found

\* the second operation found a stale token, its exchange was rejected, and
\* the stale token is still cached
C6_Witness ==
    /\ C6_ExchangeFailed(1)
    /\ ops[1].last = "rejected"
    /\ ops[1].found[1] # NoToken
    /\ accessToken = ops[1].found[1]

----------------------------------------------------------------------------
(* C7 as claimed: an ApiError caused by the per-request timeout firing on a
   business request is terminal: the dispatcher sends no further attempt for
   that operation even when maxRetries > 0. *)

C7_TimeoutTerminal ==
    \A o \in Ops : ops[o].last = "timeout" => ops[o].pc = "done"

(* C7 as amended: a timeout on a business request is retried like a 5xx
   response: after a timed-out attempt the operation backs off and sends the
   next attempt as long as retries are left, and it fails with the timeout
   ApiError (no status) only when the timed-out attempt was the last one
   allowed, attempt number maxRetries. *)

C7_TimeoutRetried ==
    \A o \in Ops :
       (ops[o].last = "timeout") =>
          /\ ops[o].pc \in {"sleep", "fetch", "done"}
          /\ ops[o].pc # "done" =>
                ops[o].attempt >= 1 /\ ops[o].attempt <= MaxRetriesOf(config)
          /\ ops[o].pc = "done" =>
                /\ ops[o].nReq = MaxRetriesOf(config) + 1
                /\ ops[o].outcome = "thrown"
                /\ ops[o].error.name = "MpesaApiError"
                /\ ops[o].error.statusCode = NoStatus

\* the attempt after a timed-out attempt is in flight
C7_Witness ==
    /\ ops[1].last = "timeout"
    /\ ops[1].pc = "fetch"
    /\ ops[1].nReq = 2

(* C8 as claimed: a non-timeout local error on a business request (the HTTP
   call failing, no HTTP status) fails the operation immediately: no retry
   is attempted even when maxRetries > 0. *)

C8_NetworkErrorTerminal ==
    \A o \in Ops : ops[o].last = "network" => ops[o].pc = "done"

(* C8 as amended: a network failure of a business request is retried like a
   5xx response: the operation backs off and sends the next attempt as long
   as retries are left, and it fails, with the error fetch rejected with,
   only when the failed attempt was the last one allowed. *)

C8_NetworkErrorRetried ==
    \A o \in Ops :
       (ops[o].last = "network") =>
          /\ ops[o].pc \in {"sleep", "fetch", "done"}
          /\ ops[o].pc # "done" =>
                ops[o].attempt >= 1 /\ ops[o].attempt <= MaxRetriesOf(config)
          /\ ops[o].pc = "done" =>
                /\ ops[o].nReq = MaxRetriesOf(config) + 1
                /\ ops[o].outcome = "thrown"
                /\ ops[o].error = NetworkError

\* the operation sleeps before the retry of an attempt that failed in the
\* network
C8_Witness ==
    /\ ops[1].last = "network"
    /\ ops[1].pc = "sleep"
    /\ ops[1].attempt = 1

----------------------------------------------------------------------------
\* the names of the three typed errors of errors.ts
C9_TypedErrors == {"MpesaValidationError", "MpesaAuthError", "MpesaApiError"}

(* C9 as claimed: every failure surfaced to the caller by a public operation
   is one of the three typed errors ValidationError, AuthError or ApiError. *)

C9_TypedErrorsOnly ==
    \A o \in Ops : ops[o].outcome = "thrown" => ops[o].error.name \in C9_TypedErrors

----------------------------------------------------------------------------
\* the delays the claim lists, by retry number
C10_Delay(k) ==
    CASE k = 1 -> 1000
      [] k = 2 -> 2000
      [] k = 3 -> 4000
      [] k = 4 -> 8000
      [] OTHER -> 10000

(* C10: before retry attempt k of a business request (k = 1..maxRetries; the
   initial attempt is not delayed) the dispatcher waits
   min(1000 * 2^(k-1), 10000) milliseconds, that is 1000, 2000, 4000, 8000
   and then 10000 for every later retry, and the next attempt is sent only
   after that wait has elapsed. *)

C10_Backoff ==
    \A o \in Ops :
       /\ ops[o].pc = "sleep" =>
             /\ ops[o].attempt >= 1
             /\ ops[o].delay = C10_Delay(ops[o].attempt)
             /\ ops[o].wakeAt = ops[o].settledAt + C10_Delay(ops[o].attempt)
       /\ (ops[o].pc = "fetch" /\ ops[o].attempt >= 1) =>
             /\ ops[o].delay = C10_Delay(ops[o].attempt)
             /\ ops[o].waited >= C10_Delay(ops[o].attempt)
       /\ (ops[o].pc = "fetch" /\ ops[o].attempt = 0) =>
             ops[o].delay = 0 /\ ops[o].waited = 0

\* the fifth retry is in flight, sent 10000 ms after the fourth retry settled
C10_Witness ==
    /\ ops[1].pc = "fetch"
    /\ ops[1].attempt = 5
    /\ ops[1].delay = 10000
    /\ ops[1].waited = 10000

----------------------------------------------------------------------------
(* C4 as claimed: for every inbound callback and every outcome of internal
   processing, the handler responds with the fixed acknowledgment
   {ResultCode: 0, ResultDesc: 'Accepted'} and a success status. *)

C4_AlwaysAcknowledged ==
    hreq.pc = "done" =>
       /\ hreq.nResponse = 1
       /\ hreq.response = [status |-> 200, body |-> Accepted]

----------------------------------------------------------------------------
\* a required field is lacking or empty
C11_Lacks(v) == v = Undefined \/ v = Str(<<>>)

\* the first lacking field, in the order the claim gives
C11_Field(raw) ==
    IF C11_Lacks(raw.consumerKey) THEN "consumerKey"
    ELSE IF C11_Lacks(raw.consumerSecret) THEN "consumerSecret"
    ELSE IF C11_Lacks(raw.businessShortCode) THEN "businessShortCode"
    ELSE IF C11_Lacks(raw.passKey) THEN "passKey"
    ELSE IF C11_Lacks(raw.callbackUrl) THEN "callbackUrl"
    ELSE "none"

(* C11: constructing a client whose configuration lacks (or has empty) any
   of consumerKey, consumerSecret, businessShortCode, passKey or callbackUrl
   fails with a ValidationError whose field names the first missing field in
   that order; no client exists afterwards (no operation is ever called on
   it) and no network call is made. *)

C11_ConstructorValidates ==
    (unit.fn = "constructor" /\ unit.pc = "done" /\ C11_Field(unit.arg) # "none") =>
       /\ ~unit.ok
       /\ unit.error.name = "MpesaValidationError"
       /\ unit.error.field = C11_Field(unit.arg)
       /\ calls = 0
       /\ \A o \in Ops : ops[o] = IdleOp
       /\ issued = 0

\* consumerSecret and passKey are missing: the error names consumerSecret
C11_Witness ==
    /\ unit.fn = "constructor"
    /\ unit.pc = "done"
    /\ unit.arg.consumerKey = Str(<<"k">>)
    /\ unit.arg.consumerSecret = Undefined
    /\ unit.arg.passKey = Str(<<>>)
    /\ unit.error.field = "consumerSecret"

----------------------------------------------------------------------------
(* C12: if two operations on the same client are in flight while the cache
   is empty or stale, both may perform a token exchange (nothing excludes
   the second exchange while the first is in flight); each operation
   continues with the token its own exchange returned, and the cache holds
   the result of one of them. *)

C12_RacingExchanges ==
    /\ \A o \in Ops :
          (ops[o].cache = "miss" /\ ops[o].pc \in {"fetch", "sleep"}) =>
             /\ ops[o].granted # NoToken
             /\ ops[o].token = ops[o].granted
             /\ ops[o].reqToken = ops[o].granted
    /\ \A o \in Ops :
          (ops[o].cache = "miss" /\ ops[o].nReq > 0) => ops[o].reqToken = ops[o].granted
    /\ (ops[1].granted # NoToken /\ ops[2].granted # NoToken) =>
          /\ ops[1].granted # ops[2].granted
          /\ accessToken \in {ops[1].granted, ops[2].granted}
    /\ issued > 0 => accessToken = grant.token

\* operation 1 found the cache empty and its exchange is still in flight,
\* while operation 2, which was exchanging at the same time, has its own
\* token and has sent its business request with it
C12_Witness ==
    /\ ops[1].pc = "auth"
    /\ ops[1].found = <<NoToken, 0>>
    /\ ops[2].pc = "fetch"
    /\ ops[2].cache = "miss"
    /\ ops[2].reqToken = ops[2].granted
    /\ accessToken = ops[2].granted

----------------------------------------------------------------------------
\* the step that calls operation o, and the call reaches getAccessToken
C13_Called(o) ==
    ops'[o].id # ops[o].id /\ ~EnvironmentRefused(ops'[o].kind, config)

\* the state right after a successful exchange: no time has passed since
C13_JustGranted == grant.token # NoToken /\ grant.at = now

(* C13 as claimed: after every successful token exchange the cache is Valid
   (token present and expiry in the future), and an operation called
   immediately after the exchange reuses the cached token without a new
   exchange, for every lifetime the gateway may report. *)

C13_ValidAfterExchange ==
    [][/\ C13_JustGranted' => (accessToken' # NoToken /\ now' < tokenExpiry')
       /\ \A o \in Ops :
             (C13_JustGranted /\ C13_Called(o)) =>
                (ops'[o].cache = "hit" /\ ops'[o].nAuth = 0)]_vars

(* C13 as amended: after a successful token exchange the token is cached;
   the cache is Valid (expiry in the future), and an operation called
   immediately afterwards reuses the token without a new exchange, exactly
   when the reported lifetime is a number greater than 60 seconds; with a
   lifetime of 60 seconds or less, or none readable, the cached expiry is
   not in the future and the next operation performs a new exchange. *)

C13_ValidWhenLongLived ==
    [][/\ C13_JustGranted' =>
             /\ accessToken' = grant'.token
             /\ (now' < tokenExpiry') <=>
                   (grant'.lifetime # <<>> /\ DigitsValue(grant'.lifetime) > 60)
       /\ \A o \in Ops :
             (C13_JustGranted /\ C13_Called(o)) =>
                IF grant.lifetime # <<>> /\ DigitsValue(grant.lifetime) > 60
                THEN ops'[o].cache = "hit" /\ ops'[o].nAuth = 0
                ELSE ops'[o].cache = "miss" /\ ops'[o].nAuth = 1]_vars

\* the second operation, called right after an exchange that reported 61
\* seconds, was served the cached token
C13_Witness ==
    /\ calls = 0
    /\ grant.lifetime = <<6, 1>>
    /\ grant.at = now
    /\ ops[1].cache = "hit"
    /\ ops[1].token = grant.token

----------------------------------------------------------------------------
(* C14: after a successful token exchange the cached expiry equals (issue
   time + reported lifetime in seconds * 1000 - 60000) milliseconds, so a
   cached token is served only while more than 60 seconds remain before the
   gateway-side expiry (issue time + lifetime) of that token. *)

C14_ExpiryMargin ==
    [][/\ (grant'.token # NoToken /\ grant'.lifetime # <<>>) =>
             /\ accessToken' = grant'.token
             /\ tokenExpiry' = grant'.at + DigitsValue(grant'.lifetime) * 1000 - 60000
       /\ \A o \in Ops :
             (ops'[o].id # ops[o].id /\ ops'[o].cache = "hit") =>
                /\ ops'[o].token = grant.token
                /\ grant.lifetime # <<>>
                /\ now + 60000 < grant.at + DigitsValue(grant.lifetime) * 1000]_vars

\* a token of 3599 seconds is served to the second operation some time after
\* the exchange
C14_Witness ==
    /\ calls = 0
    /\ grant.lifetime = <<3, 5, 9, 9>>
    /\ tokenExpiry = grant.at + 3539000
    /\ now > grant.at
    /\ ops[1].cache = "hit"

----------------------------------------------------------------------------
\* parseStkCallback was called and returned
C15_Parsed == unit.fn = "parseStkCallback" /\ unit.pc = "done" /\ unit.ok

\* the callback has a metadata item of that name
C15_HasItem(callback, name) ==
    /\ "CallbackMetadata" \in DOMAIN callback
    /\ \E i \in 1..Len(callback.CallbackMetadata.Item) :
          callback.CallbackMetadata.Item[i].Name = name

\* the optional fields of the result and the metadata items they come from
C15_Fields ==
    {<<"mpesaReceiptNumber", "MpesaReceiptNumber">>,
     <<"transactionDate", "TransactionDate">>,
     <<"phoneNumber", "PhoneNumber">>,
     <<"amount", "Amount">>}

(* C15: parseStkCallback fills mpesaReceiptNumber, transactionDate,
   phoneNumber and amount only when ResultCode is 0 and the metadata item of
   that name is present; in every other case (non-zero ResultCode even with
   metadata present, metadata absent, item missing) the field is null, not
   zero and not the empty string. *)

C15_MetadataOnlyOnSuccess ==
    C15_Parsed =>
       \A f \in C15_Fields :
          IF unit.arg.Body.stkCallback.ResultCode = 0
                /\ C15_HasItem(unit.arg.Body.stkCallback, f[2])
          THEN unit.value[f[1]] # Null
          ELSE unit.value[f[1]] = Null

\* a cancelled callback that carries all four metadata items: all four
\* fields are null
C15_Witness ==
    /\ C15_Parsed
    /\ unit.arg.Body.stkCallback.ResultCode = 1032
    /\ \A f \in C15_Fields : C15_HasItem(unit.arg.Body.stkCallback, f[2])
    /\ \A f \in C15_Fields : unit.value[f[1]] = Null

----------------------------------------------------------------------------
(* C16: for every well-formed callback payload, parseStkCallback returns
   success = true exactly when ResultCode is 0 and copies ResultCode,
   ResultDesc, MerchantRequestID and CheckoutRequestID unchanged into
   resultCode, resultDesc, merchantRequestId and checkoutRequestId; on
   success the metadata values Amount, MpesaReceiptNumber and PhoneNumber
   are returned as number, string and string. *)

C16_CanonicalResult ==
    C15_Parsed =>
       LET callback == unit.arg.Body.stkCallback
           result == unit.value
       IN  /\ result.success = (callback.ResultCode = 0)
           /\ result.resultCode = callback.ResultCode
           /\ result.resultDesc = callback.ResultDesc
           /\ result.merchantRequestId = callback.MerchantRequestID
           /\ result.checkoutRequestId = callback.CheckoutRequestID
           /\ result.amount # Null => result.amount = [t |-> "number", value |-> 100]
           /\ result.mpesaReceiptNumber # Null =>
                 result.mpesaReceiptNumber =
                    Str(<<"A", "B", "C", "1", "2", "3", "X", "Y", "Z">>)
           /\ result.phoneNumber # Null =>
                 result.phoneNumber =
                    Str(<<"2", "5", "4", "7", "1", "2", "3", "4", "5", "6", "7", "8">>)

\* a paid callback whose amount is written as the string '100': the amount
\* returned is the number 100
C16_Witness ==
    /\ C15_Parsed
    /\ unit.value.success
    /\ "CallbackMetadata" \in DOMAIN unit.arg.Body.stkCallback
    /\ unit.arg.Body.stkCallback.CallbackMetadata.Item =
          <<[Name |-> "Amount", Value |-> Str(<<"1", "0", "0">>)]>>
    /\ unit.value.amount = [t |-> "number", value |-> 100]

----------------------------------------------------------------------------
\* 12 digits starting with 254
C17_Canonical(cs) ==
    /\ Len(cs) = 12
    /\ \A i \in 1..Len(cs) : cs[i] \in Digits
    /\ SubSeq(cs, 1, 3) = <<"2", "5", "4">>

(* C17: a wrong-length phone number never reaches the gateway: every
   business request of an operation that sends a phone field (stkPush,
   b2cPayment, c2bSimulate) carries exactly 12 digits starting with 254, and
   when normalization fails the operation throws without sending the
   business request. *)

C17_PhoneOnTheWire ==
    \A o \in Ops :
       NeedsPhone(ops[o].kind) =>
          /\ ops[o].nReq > 0 => C17_Canonical(ops[o].reqPhone)
          /\ ops[o].phone = Phone071234 =>
                /\ ops[o].nReq = 0
                /\ ops[o].pc \in {"auth", "done"}
                /\ ops[o].pc = "done" => ops[o].outcome = "thrown"

\* b2cPayment with '071234' got its token and threw without a business
\* request
C17_Witness ==
    /\ ops[1].kind = "b2cPayment"
    /\ ops[1].phone = Phone071234
    /\ ops[1].token # NoToken
    /\ ops[1].outcome = "thrown"
    /\ ops[1].nReq = 0

----------------------------------------------------------------------------
(* C18 as claimed: an operation that fails input validation (malformed phone
   number in stkPush, b2cPayment or c2bSimulate; c2bSimulate in production)
   performs no network request at all, neither a token exchange nor a
   business request, from any cache state. *)

C18_NothingOnTheWire ==
    \A o \in Ops :
       (\/ EnvironmentRefused(ops[o].kind, config)
        \/ NeedsPhone(ops[o].kind) /\ ops[o].phone = Phone071234) =>
          ops[o].nAuth = 0 /\ ops[o].nReq = 0

----------------------------------------------------------------------------
(* C19 as claimed: formatPhoneNumber on any input whose digits do not come
   to exactly 12 after normalization fails with ValidationError, the kind a
   caller distinguishes from AuthError and ApiError, and the same kind is
   what stkPush, b2cPayment and c2bSimulate surface for such a number. *)

C19_PhoneValidationError ==
    /\ (unit.fn = "formatPhoneNumber" /\ unit.pc = "done" /\ ~unit.ok) =>
          unit.error.name = "MpesaValidationError"
    /\ \A o \in Ops :
          (NeedsPhone(ops[o].kind) /\ ops[o].phone = Phone071234
              /\ ops[o].token # NoToken /\ ops[o].outcome = "thrown") =>
             ops[o].error.name = "MpesaValidationError"

----------------------------------------------------------------------------
\* formatPhoneNumber was called with a written form of a subscriber number
C20_Written == unit.fn = "formatPhoneNumber" /\ unit.pc = "done" /\ unit.note # <<>>

\* '254' followed by the subscriber number
C20_CanonicalOf(n) == <<"2", "5", "4">> \o n

\* formatPhoneNumber returned 12 digits starting with 254, which it maps to
\* themselves
C20_Stable ==
    (unit.fn = "formatPhoneNumber" /\ unit.pc = "done" /\ unit.ok) =>
       /\ C17_Canonical(unit.value)
       /\ FormatPhoneNumber(unit.value).ok
       /\ FormatPhoneNumber(unit.value).value = unit.value

(* C20 as claimed: for every 9-digit subscriber number n, formatPhoneNumber
   returns '254' followed by n for all of its written forms: '0'+n,
   '+254'+n, '254'+n, bare n, and any of these with spaces, dashes or
   parentheses inserted; and whenever it returns, the result is 12 digits
   starting with 254 and normalizing it again returns it unchanged. *)

C20_AllFormsCanonical ==
    /\ C20_Written => (unit.ok /\ unit.value = C20_CanonicalOf(unit.note.n))
    /\ C20_Stable

\* a bare subscriber number that reads as if it had a prefix
C20_Ambiguous(n) == Head(n) = "0" \/ SubSeq(n, 1, 3) = <<"2", "5", "4">>

(* C20 as amended: for every 9-digit subscriber number n, formatPhoneNumber
   returns '254' followed by n for the written forms '0'+n, '+254'+n and
   '254'+n, and for bare n when n does not begin with 0 or with 254, with or
   without spaces, dashes or parentheses; bare n beginning with 0 or 254 is
   rejected (it is read as carrying a prefix and comes out too short); and
   whenever formatPhoneNumber returns, the result is 12 digits starting with
   254 and normalizing it again returns it unchanged. *)

C20_FormsCanonical ==
    /\ C20_Written =>
          IF unit.note.form = "bare" /\ C20_Ambiguous(unit.note.n)
          THEN ~unit.ok
          ELSE unit.ok /\ unit.value = C20_CanonicalOf(unit.note.n)
    /\ C20_Stable

\* '(+254) 712345678' comes out as 254712345678
C20_Witness ==
    /\ C20_Written
    /\ unit.note.form = "+254"
    /\ unit.note.deco = "parentheses"
    /\ unit.arg = <<"(", "+", "2", "5", "4", ")", " ",
                    "7", "1", "2", "3", "4", "5", "6", "7", "8">>
    /\ unit.value = <<"2", "5", "4", "7", "1", "2", "3", "4", "5", "6", "7", "8">>

----------------------------------------------------------------------------
(* C21: every operation that was called eventually returns or throws,      *)
(* whatever the gateway does, because every suspension of the operation is  *)
(* bounded by the configured timeout.                                       *)
C21_EventuallySettles ==
    \A o \in Ops : (ops[o].pc # "idle") ~> (ops[o].pc = "done")

\* what the timers do guarantee: an operation waiting for the headers of a
\* response, or sleeping between attempts, leaves that wait
C21_TimedWaitsEnd ==
    \A o \in Ops :
       (ops[o].pc \in {"auth", "fetch", "sleep"})
          ~> (ops[o].pc \in {"done", "authBody", "body"})

\* an operation reading the body of a response has no timer armed
C21_BodyReadUntimed ==
    \A o \in Ops : ops[o].pc \in {"authBody", "body"} => ops[o].deadline = 0

----------------------------------------------------------------------------
(* C22: a timeout timer is pending only while the fetch it was armed for   *)
(* is in flight: it is gone once that fetch has settled, whether by a      *)
(* response, a network failure or the timeout, so the timer of a fetch in   *)
(* flight was armed after the fetch before it settled, and there are never  *)
(* more pending timers than fetches in flight.                              *)
C22_TimersCancelled ==
    /\ \A o \in Ops :
          ops[o].deadline # 0 =>
             /\ ops[o].pc \in {"auth", "fetch"}
             /\ ops[o].deadline - TimeoutOf(config) <= now
             /\ ops[o].deadline - TimeoutOf(config) >= ops[o].settledAt
    /\ Cardinality({o \in Ops : ops[o].deadline # 0})
          <= Cardinality({o \in Ops : ops[o].pc \in {"auth", "fetch"}})

\* a retry in flight after the first attempt timed out, and no timer left
\* from that attempt: the one pending was armed when the retry was sent
C22_Witness ==
    \E o \in Ops :
       /\ ops[o].pc = "fetch"
       /\ ops[o].attempt = 1
       /\ ops[o].last = "timeout"
       /\ ops[o].deadline = now + TimeoutOf(config)
       /\ ops[o].settledAt > 0

----------------------------------------------------------------------------
\* an operation without what only the log writes and reads
C23_Erase(r) == [r EXCEPT !.debug = FALSE, !.logged = 0]

\* the same operation in a client with debug off
C23_Silent(r) == [r EXCEPT !.debug = FALSE]

\* the operation as it is called
C23_Fresh(kind, phone, debug) ==
    [IdleOp EXCEPT !.kind = kind, !.phone = phone, !.debug = debug]

(* C23: debug mode only observes.  From every state a client reaches, with
   debug on or off, every step of an operation (entering the dispatcher with
   a token, a response, a network failure, a timeout, the end of a backoff
   sleep) leaves the operation, apart from what was logged, where the same
   step leaves it in a client with debug off: the same request sent, the same
   attempt count and backoff delay, the same result returned or error
   thrown; and the token cache holds what the last successful exchange put
   there, whatever the debug setting. *)
C23_DebugObservational ==
    /\ accessToken = grant.token
    /\ tokenExpiry = (IF grant = NoGrant THEN 0 ELSE ExpiryOf(grant.at, grant.lifetime))
    /\ \A o \in Ops :
       LET r == ops[o]
           q == C23_Silent(ops[o])
           n == MaxRetriesOf(config)
       IN  /\ r.debug = DebugOf(config) \/ r.pc = "idle"
           /\ ~r.debug => r.logged = 0
           /\ \A kind \in Kinds : \A phone \in OpPhones :
                 C23_Erase(AfterToken(C23_Fresh(kind, phone, DebugOf(config)),
                                      issued + 1, now, config))
                    = C23_Erase(AfterToken(C23_Fresh(kind, phone, FALSE),
                                           issued + 1, now, config))
           /\ r.pc = "auth" =>
                 C23_Erase(AfterToken(r, issued + 1, now, config))
                    = C23_Erase(AfterToken(q, issued + 1, now, config))
           /\ r.pc = "fetch" =>
                 /\ \A resp \in Responses :
                       C23_Erase(OnResponse(Settled(r, "status", resp[1], resp[2], now),
                                            resp[1], resp[2], now, n))
                          = C23_Erase(OnResponse(Settled(q, "status", resp[1], resp[2], now),
                                                 resp[1], resp[2], now, n))
                 /\ \A e \in {NetworkError, TimedOutError} :
                       C23_Erase(Catch(Settled(r, "network", NoStatus, BodyGarbage, now),
                                       e, now, n))
                          = C23_Erase(Catch(Settled(q, "network", NoStatus, BodyGarbage, now),
                                            e, now, n))
           /\ r.pc = "sleep" =>
                 C23_Erase(SendAttempt(r, now, TimeoutOf(config)))
                    = C23_Erase(SendAttempt(q, now, TimeoutOf(config)))

\* a client with debug on whose operation was retried and has returned:
\* two requests, one retry and two responses were logged
C23_Witness ==
    \E o \in Ops :
       /\ ops[o].debug
       /\ ops[o].outcome = "returned"
       /\ ops[o].nReq = 2
       /\ ops[o].logged = 5

----------------------------------------------------------------------------
\* the requests of an operation and its loop counter: with attempt k in
\* flight the requests 0..k have been sent and 0..k-1 have settled
C24_OneInFlight ==
    \A o \in Ops :
       /\ ops[o].pc = "fetch" => ops[o].nReq = ops[o].attempt + 1
       /\ ops[o].pc = "sleep" => ops[o].nReq = ops[o].attempt /\ ops[o].last # "none"
       /\ ops[o].pc = "body" => ops[o].nReq = ops[o].attempt + 1

\* a step that sends a business request sends one; a retry is sent from the
\* backoff sleep, when its timer is due and the full delay has passed since
\* the attempt before settled
C24_SendStep ==
    \A o \in Ops :
       ops'[o].nReq > ops[o].nReq =>
          /\ ops'[o].nReq = ops[o].nReq + 1
          /\ ops'[o].pc = "fetch"
          /\ ops[o].pc # "fetch"
          /\ ops[o].nReq > 0 =>
                /\ ops[o].pc = "sleep"
                /\ ops'[o].attempt = ops[o].attempt
                /\ now >= ops[o].settledAt + BackoffDelay(ops[o].attempt)

(* C24: the retries of one operation are sequential: at most one business
   request of the operation is in flight at any moment, and attempt k+1 is
   sent only after attempt k has settled and the backoff wait has elapsed. *)
C24_SequentialRetries == []C24_OneInFlight /\ [][C24_SendStep]_vars

\* the third attempt in flight, after two attempts that settled and two
\* backoff waits
C24_Witness ==
    \E o \in Ops :
       /\ ops[o].pc = "fetch"
       /\ ops[o].attempt = 2
       /\ ops[o].nReq = 3
       /\ ops[o].waited >= 2000

----------------------------------------------------------------------------
\* operation o takes a step of its business request: it is in apiRequest
\* (a fetch in flight, a body being read, a backoff sleep) and moves
C25_BusinessStep(o) ==
    /\ ops[o].pc \in {"fetch", "body", "sleep"}
    /\ ops'[o] # ops[o]

\* the token cache
C25_Cache == <<accessToken, tokenExpiry>>

\* one step of the client, as the claim allows it
C25_Step ==
    /\ \A o \in Ops : C25_BusinessStep(o) => C25_Cache' = C25_Cache
    /\ accessToken # NoToken => accessToken' # NoToken
    /\ C25_Cache' # C25_Cache =>
          \E o \in Ops :
             /\ ops[o].pc \in {"auth", "authBody"}
             /\ issued' = issued + 1
             /\ accessToken' = issued'
             /\ ops'[o].granted = accessToken'
    /\ \A o \in Ops : \A p \in Ops \ {o} :
          ops'[o] # ops[o] => ops'[p] = ops[p]

(* C25: no outcome of a business request (2xx, 4xx including 401, 5xx,
   timeout, network failure, with or without retries) changes the token
   cache; the cached token is never cleared, it is replaced only by a later
   successful token exchange, and a step of one operation changes nothing of
   another operation but that cache. *)
C25_BusinessKeepsCache == [][C25_Step]_vars

\* a business request was answered 401 and the token it carried is still
\* cached and valid
C25_Witness ==
    \E o \in Ops :
       /\ ops[o].pc = "done"
       /\ ops[o].last = "status"
       /\ ops[o].lastStatus = 401
       /\ ops[o].reqToken = accessToken
       /\ TokenValid(accessToken, tokenExpiry, now)

----------------------------------------------------------------------------
\* generateTimestamp has returned
C26_Generated == unit.pc = "done" /\ unit.fn = "generateTimestamp"

\* the number a run of digits of the timestamp writes
C26_Read(cs, from, to) == ParseIntChars(Substring(cs, from, to))

\* the last ten characters are month (1-12), day, hour, minute and second of
\* the date, two digits each
C26_TailOf(cs, date) ==
    /\ Len(cs) >= 10
    /\ \A i \in (Len(cs) - 9)..Len(cs) : IsDigit(cs[i])
    /\ C26_Read(cs, Len(cs) - 10, Len(cs) - 8) = date.monthIndex + 1
    /\ C26_Read(cs, Len(cs) - 8, Len(cs) - 6) = date.day
    /\ C26_Read(cs, Len(cs) - 6, Len(cs) - 4) = date.hours
    /\ C26_Read(cs, Len(cs) - 4, Len(cs) - 2) = date.minutes
    /\ C26_Read(cs, Len(cs) - 2, Len(cs)) = date.seconds

(* C26 as claimed: generateTimestamp returns, for every date, exactly 14
   digits YYYYMMDDHHMMSS built from the local year, month (1-12), day, hour,
   minute and second, each of the last five zero-padded to two digits. *)
C26_FourteenDigits ==
    C26_Generated =>
       /\ Len(unit.value) = 14
       /\ \A i \in 1..Len(unit.value) : IsDigit(unit.value[i])
       /\ C26_Read(unit.value, 0, 4) = unit.arg.year
       /\ C26_TailOf(unit.value, unit.arg)

(* C26 as amended: generateTimestamp returns the local year as it is
   written, followed by month (1-12), day, hour, minute and second, each
   zero-padded to two digits; the result is the 14 digits YYYYMMDDHHMMSS
   exactly when the local year has four digits (1000..9999). *)
C26_FourteenDigitsInFourDigitYears ==
    C26_Generated =>
       /\ \A i \in 1..Len(unit.value) : IsDigit(unit.value[i])
       /\ C26_TailOf(unit.value, unit.arg)
       /\ C26_Read(SubSeq(unit.value, 1, Len(unit.value) - 10), 0, 6) = unit.arg.year
       /\ Len(unit.value) = 14 <=> (unit.arg.year >= 1000 /\ unit.arg.year <= 9999)
       /\ (unit.arg.year >= 1000 /\ unit.arg.year <= 9999) =>
             C26_Read(unit.value, 0, 4) = unit.arg.year

\* 2026-01-05 09:03:07 gave '20260105090307'
C26_Witness ==
    /\ C26_Generated
    /\ unit.arg = DateOf(2026, 0, 5, 9, 3, 7)
    /\ unit.value = <<"2", "0", "2", "6", "0", "1", "0", "5", "0", "9", "0", "3", "0", "7">>

----------------------------------------------------------------------------
\* parseSafaricomDate has returned, called with a value of the inputs
C27_ParsedValue ==
    unit.pc = "done" /\ unit.fn = "parseSafaricomDate" /\ "writes" \in DOMAIN unit.note

\* parseSafaricomDate has returned, called with what generateTimestamp
\* returned for a date
C27_ParsedBack ==
    unit.pc = "done" /\ unit.fn = "parseSafaricomDate" /\ "from" \in DOMAIN unit.note

\* a date and time of the calendar: month 1-12, a day that month has, and
\* a time of day
C27_InCalendar(date) ==
    /\ date.monthIndex \in 0..11
    /\ date.day \in 1..DaysIn(date.year, date.monthIndex)
    /\ date.hours \in 0..23
    /\ date.minutes \in 0..59
    /\ date.seconds \in 0..59

C27_FourDigitYear(date) == date.year >= 1000 /\ date.year <= 9999

(* C27 as claimed: parseSafaricomDate splits a 14-digit value, given as
   string or as integer, into the fields 4/2/2/2/2/2 and returns the local
   timestamp with that year, month index (month - 1), day, hour, minute and
   second; and parseSafaricomDate(generateTimestamp(d)) equals d to the
   second for every valid date d with a 4-digit year. *)
C27_SplitsAndInverts ==
    /\ C27_ParsedValue => unit.value = unit.note.writes
    /\ (C27_ParsedBack /\ C27_FourDigitYear(unit.note.from)) =>
          unit.value = unit.note.from

(* C27 as amended: for a 14-digit value, string or integer, that writes a
   date and time of the calendar with a year of at least 0100, at which the
   local clock is not being skipped forward, parseSafaricomDate returns the
   earliest local timestamp with that year, month index (month - 1), day,
   hour, minute and second; parseSafaricomDate(generateTimestamp(d)) equals
   d to the second for every valid date d with a 4-digit year, except when d
   is the later of two instants at which the local clock reads the same (the
   hour repeated when the clock is set back), where it returns the earlier
   one. *)
C27_SplitsAndInvertsUnrepeated ==
    /\ (/\ C27_ParsedValue
        /\ C27_InCalendar(unit.note.writes)
        /\ unit.note.writes.year >= 100
        /\ ~SkippedHour(unit.note.writes)) =>
          unit.value = unit.note.writes
    /\ (C27_ParsedBack /\ C27_FourDigitYear(unit.note.from)) =>
          /\ unit.value = [unit.note.from EXCEPT !.fold = 0]
          /\ unit.value = unit.note.from <=> unit.note.from.fold = 0

\* 2026-12-31 23:59:59 was written by generateTimestamp and read back
C27_Witness ==
    /\ C27_ParsedBack
    /\ unit.note.from = DateOf(2026, 11, 31, 23, 59, 59)
    /\ unit.value = unit.note.from

----------------------------------------------------------------------------
\* the last business response of operation o had a success status
C28_Succeeded(o) ==
    /\ ops[o].pc # "body"
    /\ ops[o].last = "status"
    /\ ResponseOk(ops[o].lastStatus)

\* an operation that got a success status has returned the parsed body of
\* that response and thrown nothing
C28_ReturnsThatBody ==
    \A o \in Ops :
       C28_Succeeded(o) =>
          /\ ops[o].pc = "done"
          /\ ops[o].outcome = "returned"
          /\ ops[o].data = ParsedBody(ops[o].lastBody)
          /\ ops[o].error = NoError

\* an operation that has returned does nothing more
C28_Stopped ==
    \A o \in Ops : ops[o].outcome = "returned" => ops'[o] = ops[o]

(* C28: an operation stops at the first business response with a success
   status: after any number of earlier failed attempts within the retry
   budget it returns the parsed body of that response, sends no further
   request and surfaces none of the earlier errors. *)
C28_StopsAtFirstSuccess == []C28_ReturnsThatBody /\ [][C28_Stopped]_vars

\* the third attempt was answered 200 after two attempts answered 5xx: the
\* operation returned its body, the error of the second attempt still kept
C28_Witness ==
    \E o \in Ops :
       /\ C28_Succeeded(o)
       /\ ops[o].nReq = 3
       /\ ops[o].lastError.statusCode >= 500
       /\ ops[o].data = BodyAccepted.data

----------------------------------------------------------------------------
\* the error the last attempt of operation o produced
C29_ErrorOfLast(o) ==
    CASE ops[o].last = "status" -> ApiErrorOf(ops[o].lastStatus, ops[o].lastBody)
      [] ops[o].last = "timeout" -> TimedOutError
      [] ops[o].last = "network" -> NetworkError
      [] OTHER -> NoError

(* C29: for every sequence of attempt outcomes and every maxRetries = n >= 0
   one operation sends at most n + 1 business requests, and when it fails
   after having sent one, the error surfaced is the one its final attempt
   produced. *)
C29_BoundedAndLastError ==
    \A o \in Ops :
       MaxRetriesOf(config) >= 0 =>
          /\ ops[o].nReq <= MaxRetriesOf(config) + 1
          /\ (ops[o].outcome = "thrown" /\ ops[o].nReq > 0) =>
                /\ ops[o].last \in {"status", "timeout", "network"}
                /\ ops[o].error = C29_ErrorOfLast(o)

\* six requests with five retries: the last one failed in the network after
\* a response, and the network error is what the caller got
C29_Witness ==
    \E o \in Ops :
       /\ MaxRetriesOf(config) = 5
       /\ ops[o].nReq = 6
       /\ ops[o].outcome = "thrown"
       /\ ops[o].last = "network"
       /\ ~ops[o].only5xx
       /\ ops[o].error = NetworkError

----------------------------------------------------------------------------
\* operation o passed validation and obtained a token
C30_Authorised(o) ==
    /\ ops[o].token # NoToken
    /\ NeedsPhone(ops[o].kind) => ops[o].formatted # <<>>

(* C30 as claimed: every operation that passes validation and obtains a
   token sends at least one business request before it fails; for no retries
   value the configuration accepts does an operation fail with 'Request
   failed after all retries' without having contacted the business
   endpoint. *)
C30_ContactsBeforeFailing ==
    \A o \in Ops :
       /\ (ops[o].outcome = "thrown" /\ C30_Authorised(o)) => ops[o].nReq >= 1
       /\ (/\ ops[o].outcome = "thrown"
           /\ ops[o].error.message = "Request failed after all retries") =>
             ops[o].nReq >= 1

\* with a retries value that is not negative the claim holds
C30_ContactsWhenNotNegative ==
    MaxRetriesOf(config) >= 0 => C30_ContactsBeforeFailing

----------------------------------------------------------------------------
\* the token exchange of operation o failed without a response
C36_ExchangeBroke(o) == ops[o].last \in {"exchangeTimeout", "exchangeNetwork"}

(* C36: a timeout or a network failure during the token exchange surfaces
   as the HTTP layer produced it (for a timeout the MpesaApiError 'Request
   timed out' without status), never as MpesaAuthError; the exchange is not
   retried, whatever maxRetries is, and no business request is sent. *)
C36_ExchangeFailureSurfaces ==
    \A o \in Ops :
       /\ C36_ExchangeBroke(o) =>
             /\ ops[o].pc = "done"
             /\ ops[o].outcome = "thrown"
             /\ ops[o].error.name # "MpesaAuthError"
             /\ ops[o].nAuth = 1
             /\ ops[o].nReq = 0
             /\ ops[o].attempt = 0
       /\ ops[o].last = "exchangeTimeout" =>
             /\ ops[o].error.name = "MpesaApiError"
             /\ ops[o].error.message = "Request timed out"
             /\ ops[o].error.statusCode = NoStatus
       /\ ops[o].last = "exchangeNetwork" => ops[o].error = NetworkError

\* the token exchange of a client with five retries timed out
C36_Witness ==
    \E o \in Ops :
       /\ MaxRetriesOf(config) = 5
       /\ ops[o].last = "exchangeTimeout"
       /\ ops[o].error = TimedOutError

----------------------------------------------------------------------------
\* the last business response of operation o had a body that does not parse
C37_Unparsable(o) ==
    /\ ops[o].last = "status"
    /\ ops[o].pc # "body"
    /\ ~ops[o].lastBody.json

\* the MpesaApiError of a response with that status and an empty structure
C37_EmptyError(status) ==
    [name |-> "MpesaApiError", message |-> "API request failed", statusCode |-> status,
     response |-> EmptyObj, errorCode |-> "", field |-> ""]

(* C37: the outcome class of a business response depends on the HTTP status
   alone.  A body that cannot be parsed counts as the empty structure: with
   a 2xx the operation returns the empty structure, with another status the
   MpesaApiError of that status is built (retried if the status is >= 500
   and attempts are left, thrown otherwise); an operation never throws a
   parse exception for a business response. *)
C37_StatusDecides ==
    \A o \in Ops :
       /\ (ops[o].last = "status" /\ ops[o].pc = "done") =>
             (ops[o].outcome = "returned" <=> ResponseOk(ops[o].lastStatus))
       /\ (ops[o].last = "status" /\ ops[o].pc \notin {"done", "body"}) =>
             /\ ops[o].lastStatus >= 500
             /\ ops[o].attempt <= MaxRetriesOf(config)
             /\ ops[o].lastError = ApiErrorOf(ops[o].lastStatus, ops[o].lastBody)
       /\ (C37_Unparsable(o) /\ ResponseOk(ops[o].lastStatus)) =>
             ops[o].outcome = "returned" /\ ops[o].data = EmptyObj
       /\ (C37_Unparsable(o) /\ ~ResponseOk(ops[o].lastStatus)) =>
             /\ ops[o].lastError = C37_EmptyError(ops[o].lastStatus)
             /\ ops[o].pc = "done" =>
                   /\ ops[o].error = C37_EmptyError(ops[o].lastStatus)
                   /\ ops[o].lastStatus < 500 \/ ops[o].attempt >= MaxRetriesOf(config)
       /\ ops[o].nReq > 0 => ops[o].error.name # "SyntaxError"

\* a 503 with an unparsable body was retried, and the retry got a 200 with
\* an unparsable body: the operation returned the empty structure
C37_Witness ==
    \E o \in Ops :
       /\ C37_Unparsable(o)
       /\ ops[o].lastStatus = 200
       /\ ops[o].nReq = 2
       /\ ops[o].lastError = C37_EmptyError(503)
       /\ ops[o].outcome = "returned"
       /\ ops[o].data = EmptyObj

----------------------------------------------------------------------------
\* operation o sends a business request in this step
C32_Sends(o) == ops'[o].nReq = ops[o].nReq + 1

\* the request operation o has just sent carries the cached token, and the
\* cache rule of getAccessToken still holds for it at this instant
C32_Unexpired(o) ==
    /\ ops'[o].reqToken = accessToken'
    /\ TokenValid(accessToken', tokenExpiry', now')

(* C32: every business request, retries included, carries a token that is
   unexpired by the cache rule (send time < recorded expiry) at the moment
   it is sent. *)
C32_UnexpiredAtSend == [][\A o \in Ops : C32_Sends(o) => C32_Unexpired(o)]_vars

\* the same for the first attempt alone, of a token whose recorded expiry
\* lay after the instant it was granted
C32_FirstAttemptUnexpired ==
    [][\A o \in Ops :
          (/\ C32_Sends(o)
           /\ ops'[o].nReq = 1
           /\ grant # NoGrant
           /\ tokenExpiry' # NaN
           /\ tokenExpiry' > grant'.at) => C32_Unexpired(o)]_vars

\* a retry in flight with a token that was valid at the first attempt and
\* had expired by the cache rule when the retry was sent
C32_RetrySentExpired ==
    \E o \in Ops :
       /\ ops[o].pc = "fetch"
       /\ ops[o].nReq = 2
       /\ ops[o].deadline = now + TimeoutOf(config)
       /\ ops[o].reqToken = accessToken
       /\ tokenExpiry # NaN
       /\ tokenExpiry > grant.at
       /\ now >= tokenExpiry

----------------------------------------------------------------------------
\* the pair that the token exchange recorded in g wrote to the cache
C33_PairOf(g) ==
    IF g = NoGrant THEN <<NoToken, 0>>
    ELSE <<g.token, ExpiryOf(g.at, g.lifetime)>>

(* C33: under any interleaving of concurrent token exchanges on one client
   the cached token and the cached expiry are written together by one
   exchange: the cache never pairs the token of one exchange with the
   expiry of another, and it holds the pair of the exchange that completed
   last. *)
C33_PairWrittenTogether ==
    /\ <<accessToken, tokenExpiry>> = C33_PairOf(grant)
    /\ grant.token = issued
    /\ \A o \in Ops : ops[o].granted # NoToken => ops[o].granted <= issued

\* two exchanges were in flight at once; the operation called first got its
\* token last, with the shorter lifetime, after time had passed, and the
\* cache holds its pair
C33_Witness ==
    \E o1, o2 \in Ops :
       /\ ops[o1].id > ops[o2].id
       /\ ops[o1].cache = "miss" /\ ops[o2].cache = "miss"
       /\ ops[o2].granted = 1
       /\ ops[o1].granted = 2
       /\ ops[o1].pc = "done" /\ ops[o2].pc = "done"
       /\ grant.at > 0
       /\ grant.lifetime = <<6, 1>>
       /\ accessToken = 2
       /\ tokenExpiry = grant.at + 1000

----------------------------------------------------------------------------
\* onResult was called at most once, only for a payload that parseStkCallback
\* accepts, and with what parseStkCallback made of it
C38_ResultOnce ==
    /\ hreq.nResult <= 1
    /\ hreq.nResult = 1 =>
          /\ ~StkCallbackThrows(hreq.payload)
          /\ hreq.passed = ParseStkCallback(hreq.payload)

\* onError was called at most once, only when it was supplied, and only
\* after the body, the normalization or onResult had failed
C38_ErrorOnce ==
    /\ hreq.nError <= 1
    /\ hreq.nError = 1 =>
          /\ hreq.onError
          /\ \/ StkCallbackThrows(hreq.payload)
             \/ hreq.nResult = 1
             \/ IsRoute(hreq.handler)

\* the acknowledgment is sent once the callbacks have settled, not before,
\* and every callback handled is acknowledged exactly once
C38_AckOnce ==
    /\ hreq.nResponse <= 1
    /\ hreq.nResponse = 1 => hreq.pc = "done"
    /\ hreq.pc = "done" => hreq.nResponse = 1

(* C38: for each callback handled by createStkCallbackHandler or
   createStkCallbackRoute, onResult is invoked at most once, only for a
   normalized payload and with the normalized result; onError is invoked at
   most once; and the acknowledgment is sent exactly once, after the invoked
   callbacks have settled. *)
C38_CallbacksThenOneAck ==
    IsStk(hreq.handler) => C38_ResultOnce /\ C38_ErrorOnce /\ C38_AckOnce

\* what does hold: the callbacks are invoked as stated, the acknowledgment
\* is never sent early or twice, and it is sent whenever onError did not throw
C38_OneAckUnlessOnErrorThrows ==
    IsStk(hreq.handler) =>
       /\ C38_ResultOnce
       /\ C38_ErrorOnce
       /\ hreq.nResponse <= 1
       /\ hreq.nResponse = 1 => hreq.pc = "done"
       /\ (hreq.pc = "done" /\ ~hreq.rejected) => hreq.nResponse = 1
       /\ hreq.rejected => hreq.nError = 1 /\ hreq.nResponse = 0

\* an STK callback was normalized, onResult and then onError threw: the
\* handler ended without an acknowledgment
C38_Unacknowledged ==
    /\ IsStk(hreq.handler)
    /\ hreq.pc = "done"
    /\ hreq.nResult = 1
    /\ hreq.nError = 1
    /\ hreq.rejected
    /\ hreq.nResponse = 0

----------------------------------------------------------------------------
\* what the last business request of operation o carried
C31_Request(o) ==
    <<ops[o].reqToken, ops[o].reqPhone, ops[o].reqTimestamp, ops[o].reqPassword>>

\* operation o sends a retry in this step
C31_Retries(o) == ops[o].nReq >= 1 /\ ops'[o].nReq = ops[o].nReq + 1

\* the retry carries what the attempt before it carried, and neither a token
\* exchange nor a new signature was made for it
C31_SameRequest(o) ==
    /\ C31_Request(o)' = C31_Request(o)
    /\ ops'[o].nAuth = ops[o].nAuth
    /\ ops'[o].token = ops[o].token
    /\ ops'[o].timestamp = ops[o].timestamp
    /\ ops'[o].password = ops[o].password
    /\ issued' = issued

(* C31: all attempts of one operation send the identical request: the bearer
   token obtained once before the first attempt and the body, with its
   Timestamp and Password, built once per operation are reused unchanged on
   every retry; no token exchange and no re-signing happens between
   attempts. *)
C31_IdenticalAttempts ==
    /\ [](\A o \in Ops : ops[o].nAuth <= 1)
    /\ [][\A o \in Ops : C31_Retries(o) => C31_SameRequest(o)]_vars

\* the third attempt of an stkPush is in flight, three seconds or more after
\* the body was signed, with the timestamp of the first attempt
C31_Witness ==
    \E o \in Ops :
       /\ ops[o].kind = "stkPush"
       /\ ops[o].pc = "fetch"
       /\ ops[o].nReq = 3
       /\ ops[o].nAuth = 1
       /\ now >= 3000
       /\ ops[o].reqTimestamp = GenerateTimestamp(ClockDate(0))
       /\ GenerateTimestamp(ClockDate(now)) # ops[o].reqTimestamp

----------------------------------------------------------------------------
\* operation o has sent an STK request
C34_SentStk(o) == ops[o].kind \in {"stkPush", "stkQuery"} /\ ops[o].nReq > 0

\* 20260225143045 and 20260225143046
C34_At0 == <<"2", "0", "2", "6", "0", "2", "2", "5", "1", "4", "3", "0", "4", "5">>

C34_At1 == <<"2", "0", "2", "6", "0", "2", "2", "5", "1", "4", "3", "0", "4", "6">>

\* MTc0Mzc5YmZiMjc5ZjkyMDI2MDIyNTE0MzA0NQ== and ...0Ng==
C34_Stem ==
    <<"M", "T", "c", "0", "M", "z", "c", "5", "Y", "m", "Z", "i", "M", "j", "c", "5",
      "Z", "j", "k", "y", "M", "D", "I", "2", "M", "D", "I", "y", "N", "T", "E", "0",
      "M", "z", "A", "0">>

C34_PasswordAt0 == C34_Stem \o <<"N", "Q", "=", "=">>

C34_PasswordAt1 == C34_Stem \o <<"N", "g", "=", "=">>

(* C34: in every stkPush and stkQuery request the Password is derived from
   exactly the Timestamp sent in the same body: Password =
   base64(businessShortCode + passKey + Timestamp) with no separators, both
   from one clock reading per operation. *)
C34_PasswordOfTimestamp ==
    \A o \in Ops :
       C34_SentStk(o) =>
          /\ Len(ops[o].reqTimestamp) = 14
          /\ ops[o].reqPassword =
                Base64(BufferFrom(BusinessShortCode \o PassKey \o ops[o].reqTimestamp))
          /\ ops[o].reqTimestamp = C34_At0 => ops[o].reqPassword = C34_PasswordAt0
          /\ ops[o].reqTimestamp = C34_At1 => ops[o].reqPassword = C34_PasswordAt1

\* an stkQuery called one second after the client was made sent a retry
\* later on, still with the timestamp and the password of that second
C34_Witness ==
    \E o \in Ops :
       /\ ops[o].kind = "stkQuery"
       /\ ops[o].nReq = 2
       /\ now >= 2000
       /\ ops[o].reqTimestamp = C34_At1
       /\ ops[o].reqPassword = C34_PasswordAt1

----------------------------------------------------------------------------
\* operation o is a c2bSimulate that was called
C35_Simulated(o) == ops[o].kind = "c2bSimulate" /\ ops[o].pc # "idle"

\* the operation ended at once with the ValidationError of the environment,
\* before the cache was read and before anything was sent
C35_RefusedFirst(o) ==
    /\ ops[o].pc = "done"
    /\ ops[o].outcome = "thrown"
    /\ ops[o].error.name = "MpesaValidationError"
    /\ ops[o].error.field = "environment"
    /\ ops[o].cache = "none"
    /\ ops[o].nAuth = 0
    /\ ops[o].nReq = 0
    /\ ops[o].token = NoToken

\* the operation went on to getAccessToken
C35_Proceeded(o) ==
    /\ ops[o].cache \in {"hit", "miss"}
    /\ ops[o].error.field # "environment"
    /\ ops[o].cache = "miss" => ops[o].nAuth = 1

\* a step that calls c2bSimulate on a production client
C35_RefusingStep(o) ==
    /\ config.environment = "production"
    /\ ops'[o].kind = "c2bSimulate"
    /\ ops'[o].id # ops[o].id

(* C35: c2bSimulate on a production client fails with ValidationError on
   field 'environment' before anything else happens: no token exchange, no
   business request, the token cache unchanged; on a sandbox client, or one
   without environment, it proceeds. *)
C35_ProductionRefusedFirst ==
    /\ [](\A o \in Ops :
            C35_Simulated(o) =>
               IF config.environment = "production" THEN C35_RefusedFirst(o)
               ELSE C35_Proceeded(o))
    /\ [][\A o \in Ops :
            C35_RefusingStep(o) =>
               <<accessToken, tokenExpiry, issued>>' = <<accessToken, tokenExpiry, issued>>]_vars

\* a production client that holds a valid token refused c2bSimulate and the
\* token is still there
C35_Witness ==
    \E o \in Ops :
       /\ config.environment = "production"
       /\ C35_Simulated(o)
       /\ C35_RefusedFirst(o)
       /\ TokenValid(accessToken, tokenExpiry, now)

----------------------------------------------------------------------------
\* the host of the environment the client was configured for
C39_HostOf(cfg) ==
    IF cfg.environment = "production" THEN "api.safaricom.co.ke"
    ELSE "sandbox.safaricom.co.ke"

(* C39: every request a client sends goes to the hosts of its configured
   environment and the two are never mixed: a sandbox client and a client
   without environment send token exchanges and business requests to
   sandbox.safaricom.co.ke, a production client sends both to
   api.safaricom.co.ke; the choice is fixed for the client's lifetime. *)
C39_HostsOfEnvironment ==
    /\ [](\A o \in Ops :
            /\ ops[o].nAuth > 0 => ops[o].authHost = C39_HostOf(config)
            /\ ops[o].nReq > 0 => ops[o].reqHost = C39_HostOf(config)
            /\ ops[o].authHost \in {"", C39_HostOf(config)}
            /\ ops[o].reqHost \in {"", C39_HostOf(config)})
    /\ [][config' = config]_vars

\* a client without environment sent its token exchange and its business
\* request to the sandbox
C39_Witness ==
    \E o \in Ops :
       /\ config.environment = "unset"
       /\ ops[o].nAuth = 1
       /\ ops[o].nReq = 1
       /\ ops[o].authHost = "sandbox.safaricom.co.ke"
       /\ ops[o].reqHost = "sandbox.safaricom.co.ke"

----------------------------------------------------------------------------
\* the certificate the configured password is encrypted with
C40_Certificate(cfg) ==
    IF cfg.certificatePath = "" THEN "SANDBOX_CERTIFICATE" ELSE cfg.certificatePath

\* the credential that the precedence gives operation o
C40_Expected(o) ==
    IF ops[o].securityCredential # <<>> THEN PlainText(ops[o].securityCredential)
    ELSE IF config.initiatorPassword # <<>>
    THEN Encrypted(config.initiatorPassword, C40_Certificate(config))
    ELSE PlainText(BusinessShortCode)

(* C40: for B2C, B2B, balance, status, reversal and tax operations the
   SecurityCredential sent is the request's securityCredential if given,
   else the configured initiatorPassword encrypted with the certificate,
   else the businessShortCode; the configured initiatorPassword never
   appears unencrypted in an outbound body. *)
C40_CredentialPrecedence ==
    \A o \in Ops :
       /\ (NeedsCredential(ops[o].kind) /\ ops[o].nReq > 0) =>
             ops[o].reqCredential = C40_Expected(o)
       /\ (~NeedsCredential(ops[o].kind) /\ ops[o].nReq > 0) =>
             ops[o].reqCredential = NoCredential
       /\ (config.initiatorPassword # <<>> /\ ops[o].nReq > 0) =>
             ops[o].reqCredential # PlainText(config.initiatorPassword)

\* a reversal without a credential of its own, on a client with an
\* initiator password and a certificate file, sent the password encrypted
C40_Witness ==
    \E o \in Ops :
       /\ ops[o].kind = "reversal"
       /\ ops[o].securityCredential = <<>>
       /\ config.initiatorPassword = InitiatorPassword
       /\ config.certificatePath = "production.cer"
       /\ ops[o].nReq = 1
       /\ ops[o].reqCredential = Encrypted(InitiatorPassword, "production.cer")

====
